---- MODULE Spec2Model ----
(***************************************************************************)
(* The experiment runner of the deterministic-contract lab page (HomePage) *)
(* as a state machine.  React state and the shared runControlRef are the   *)
(* variables; every invocation of startExperiment is a runner with its own *)
(* closure (captured configuration and loop locals).  JavaScript runs the  *)
(* code between two awaits atomically, so there is one action per          *)
(* completion of an awaited call: it consumes the response and runs the    *)
(* handler up to the next await (or to the end of startExperiment).        *)
(***************************************************************************)
EXTENDS Integers, Sequences, FiniteSets, TLC

\* ---------------------------------------------------------------- bounds
\* Lines of the literal script file that is loaded (loadScriptPrompts).
NumPrompts == 2
\* Value of the brutalRepetitionCount input (the UI clamps it to 4..10000).
RepetitionCount == 4
\* Spec: invocations of startExperiment, each made after the earlier ones
\* have returned.
MaxRuns == 1
\* Edits of the configuration controls after the first startExperiment.
MaxLateEdits == 0
\* SpecRace: invocations of startExperiment, and outbound calls (completion,
\* observe, proposal, constraint submission) issued by all of them together.
RaceRuns == 2
RaceRequests == 6
\* SpecLibrary: the largest numerator and denominator handed to safeRate.
MaxCount == 5

\* ------------------------------------------------------- program constants
ASSISTED_RETRY_CAP_OPTIONS == {1, 2}
BRUTAL_ALLOWED_LABELS == <<"A", "B", "C", "D">>
GateStates == {"CONTINUE", "PAUSE", "YIELD"}

\* An optional value (T | undefined) is the empty set or a singleton.
Undefined == {}
Some(v) == {v}
Get(opt) == CHOOSE v \in opt : TRUE

Min(a, b) == IF a < b THEN a ELSE b
Max(a, b) == IF a > b THEN a ELSE b

\* ------------------------------------------------------------ strings
\* String.prototype.trim on the strings that occur in the model.
Trim(s) ==
  CASE s = " 42 " -> "42"
    [] s = " "    -> ""
    [] s = "\n"   -> ""
    [] OTHER      -> s

\* ------------------------------------------------------------ prompts
BrutalLiteral(label) ==
  "{\"result\":{\"answer\":\"" \o label \o "\",\"confidence\":0.75},\"meta\":{\"version\":1}}"

\* Lines 51-79: the instruction lines joined with "\n".
buildBrutalPrompt(expectedLabel, expectedLiteral) ==
  "You must output EXACTLY one JSON object.\nNo markdown.\nNo explanation.\n" \o
  "No additional text.\nNo leading or trailing whitespace.\n" \o
  "No newline before or after the object.\nNo spaces anywhere in the output.\n\n" \o
  "Schema:\n{\"result\":{\"answer\":\"X\",\"confidence\":0.75},\"meta\":{\"version\":1}}\n\n" \o
  "Where X must be exactly one of: \"A\",\"B\",\"C\",\"D\"\nKey order rules:\n" \o
  "1) Top-level keys must be exactly: result, then meta\n" \o
  "2) result keys must be exactly: answer, then confidence\n" \o
  "3) meta keys must be exactly: version\n4) No extra keys and no nested extras\n\n" \o
  "Return ONLY the JSON object.\nReplace X with the correct expected label.\n" \o
  "Expected label: " \o expectedLabel \o
  "\n\nThe only valid output for this turn is exactly: " \o expectedLiteral \o
  "\nExact character count must be: " \o ToString(Len(expectedLiteral)) \o
  "\nFirst character must be '{' and last character must be '}'."

\* A number is a fraction num/den with den > 0; Math.floor of it.
Whole(n) == [num |-> n, den |-> 1]
MathFloor(x) == x.num \div x.den

\* Lines 83-96: the prompts 1..count.
BrutalPromptList(count) ==
  [i \in 1..count |->
     [id |-> i,
      prompt |-> buildBrutalPrompt(BRUTAL_ALLOWED_LABELS[((i - 1) % Len(BRUTAL_ALLOWED_LABELS)) + 1],
                                   BrutalLiteral(BRUTAL_ALLOWED_LABELS[((i - 1) % Len(BRUTAL_ALLOWED_LABELS)) + 1])),
      expected_literal |-> Some(BrutalLiteral(BRUTAL_ALLOWED_LABELS[((i - 1) % Len(BRUTAL_ALLOWED_LABELS)) + 1])),
      expected_label |-> Some(BRUTAL_ALLOWED_LABELS[((i - 1) % Len(BRUTAL_ALLOWED_LABELS)) + 1])]]

\* generateBrutalPrompts altered: the count has no lower limit.
generateBrutalPromptsNoMinimum(repetitionCount) ==
  BrutalPromptList(Min(10000, MathFloor(repetitionCount)))

\* Lines 81-97.
generateBrutalPrompts(repetitionCount) ==
  BrutalPromptList(Max(4, Min(10000, MathFloor(repetitionCount))))

\* The literal script served under /scripts: even lines carry a (padded)
\* expected literal, odd lines carry a blank one or none (or one that is
\* not a string, which line 227 treats alike).
ScriptFile ==
  [i \in 1..NumPrompts |->
     [id |-> i,
      prompt |-> "Q" \o ToString(i),
      expected_literal |-> IF i % 2 = 0 THEN Some(" 42 ")
                           ELSE IF i % 4 = 1 THEN Some(" ") ELSE Undefined,
      expected_label |-> Undefined]]

\* normalizeExpectedLiteral altered: a blank literal is kept as a contract.
normalizeKeepsBlank(prompt) ==
  IF prompt.expected_literal = Undefined THEN Undefined
  ELSE Some(Trim(Get(prompt.expected_literal)))

normalizeExpectedLiteral(prompt) ==
  IF prompt.expected_literal = Undefined THEN Undefined
  ELSE LET trimmed == Trim(Get(prompt.expected_literal))
       IN IF Len(trimmed) > 0 THEN Some(trimmed) ELSE Undefined

\* expectedLabelHint ?? expectedLabelFromLiteral (BRUTAL_OUTPUT_PATTERN match).
LabelFromLiteral(expectedLiteral) ==
  IF expectedLiteral = Undefined THEN Undefined
  ELSE {l \in {BRUTAL_ALLOWED_LABELS[k] : k \in 1..Len(BRUTAL_ALLOWED_LABELS)} :
          BrutalLiteral(l) = Get(expectedLiteral)}

ExpectedLabelOf(prompt, expectedLiteral) ==
  IF prompt.expected_label # Undefined
    THEN Some(Trim(Get(prompt.expected_label)))
    ELSE LabelFromLiteral(expectedLiteral)

\* ------------------------------------------------------------ JSON values
\* A parsed JSON value: its type, its scalar text, and for an object its
\* members in Object.keys order.
JStr(s) == [t |-> "string", s |-> s, kv |-> <<>>]
JNum(s) == [t |-> "number", s |-> s, kv |-> <<>>]
JObj(kv) == [t |-> "object", s |-> "", kv |-> kv]
JArr == [t |-> "array", s |-> "", kv |-> <<>>]
JNull == [t |-> "null", s |-> "", kv |-> <<>>]
Member(k, v) == [k |-> k, v |-> v]

ContractObject(label, confidence, version) ==
  JObj(<<Member("result", JObj(<<Member("answer", JStr(label)),
                                 Member("confidence", JNum(confidence))>>)),
         Member("meta", JObj(<<Member("version", JNum(version))>>))>>)

Labels == {BRUTAL_ALLOWED_LABELS[k] : k \in 1..Len(BRUTAL_ALLOWED_LABELS)}

SpacedLiteral(label) ==
  "{ \"result\": {\"answer\": \"" \o label \o "\", \"confidence\": 0.75}, \"meta\": {\"version\": 1} }"
MetaFirstLiteral(label) ==
  "{\"meta\":{\"version\":1},\"result\":{\"answer\":\"" \o label \o "\",\"confidence\":0.75}}"

\* The texts of JSON values: the contract object in compact form with any
\* answer string, confidence and version, and its variants.
Quoted(str) == "\"" \o str \o "\""
ResultText(answerText, confidenceText) ==
  "{\"answer\":" \o answerText \o ",\"confidence\":" \o confidenceText \o "}"
MetaText(versionText) == "{\"version\":" \o versionText \o "}"
TopText(resultText, metaText) == "{\"result\":" \o resultText \o ",\"meta\":" \o metaText \o "}"
Document(text, value) == [text |-> text, value |-> value]

\* Answer strings: the allowed labels and one that is not allowed.
AnswerStrings == Labels \cup {"E"}
ResultObject(label) ==
  JObj(<<Member("answer", JStr(label)), Member("confidence", JNum("0.75"))>>)
MetaObject == JObj(<<Member("version", JNum("1"))>>)

CompactDocuments ==
  { Document(TopText(ResultText(Quoted(l), c), MetaText(v)), ContractObject(l, c, v)) :
      l \in AnswerStrings, c \in {"0.75", "0.5"}, v \in {"1", "2"} }
\* The same value written differently: white space, a longer numeral, a
\* repeated member (the last one wins and keeps the first one's place).
RewrittenDocuments ==
  { Document(SpacedLiteral(l), ContractObject(l, "0.75", "1")) : l \in AnswerStrings }
  \cup { Document(BrutalLiteral(l) \o "\n", ContractObject(l, "0.75", "1")) : l \in AnswerStrings }
  \cup { Document(TopText(ResultText(Quoted(l), "0.750"), MetaText("1")),
                  ContractObject(l, "0.75", "1")) : l \in AnswerStrings }
  \cup { Document("{\"result\":" \o ResultText(Quoted(l), "0.75") \o ",\"meta\":" \o MetaText("2")
                    \o ",\"meta\":" \o MetaText("1") \o "}",
                  ContractObject(l, "0.75", "1")) : l \in AnswerStrings }
\* Members in another order.
ReorderedDocuments ==
  { Document(MetaFirstLiteral(l),
             JObj(<<Member("meta", MetaObject), Member("result", ResultObject(l))>>)) :
      l \in AnswerStrings }
  \cup { Document(TopText("{\"confidence\":0.75,\"answer\":" \o Quoted(l) \o "}", MetaText("1")),
                  JObj(<<Member("result", JObj(<<Member("confidence", JNum("0.75")),
                                                 Member("answer", JStr(l))>>)),
                         Member("meta", MetaObject)>>)) : l \in AnswerStrings }
\* One member more, at the top level, inside result, inside meta.
ExtendedDocuments ==
  { Document("{\"result\":" \o ResultText(Quoted(l), "0.75") \o ",\"meta\":" \o MetaText("1")
               \o ",\"note\":\"x\"}",
             JObj(<<Member("result", ResultObject(l)), Member("meta", MetaObject),
                    Member("note", JStr("x"))>>)) : l \in AnswerStrings }
  \cup { Document(TopText("{\"answer\":" \o Quoted(l) \o ",\"confidence\":0.75,\"why\":\"x\"}",
                          MetaText("1")),
                  JObj(<<Member("result", JObj(<<Member("answer", JStr(l)),
                                                 Member("confidence", JNum("0.75")),
                                                 Member("why", JStr("x"))>>)),
                         Member("meta", MetaObject)>>)) : l \in AnswerStrings }
  \cup { Document(TopText(ResultText(Quoted(l), "0.75"), "{\"version\":1,\"build\":2}"),
                  JObj(<<Member("result", ResultObject(l)),
                         Member("meta", JObj(<<Member("version", JNum("1")),
                                               Member("build", JNum("2"))>>))>>)) :
           l \in AnswerStrings }
\* Values of another type, and a member missing.
MistypedDocuments ==
  { Document(TopText(ResultText("1", "0.75"), MetaText("1")),
             JObj(<<Member("result", JObj(<<Member("answer", JNum("1")),
                                            Member("confidence", JNum("0.75"))>>)),
                    Member("meta", MetaObject)>>)),
    Document(TopText(ResultText(Quoted("A"), Quoted("0.75")), MetaText("1")),
             JObj(<<Member("result", JObj(<<Member("answer", JStr("A")),
                                            Member("confidence", JStr("0.75"))>>)),
                    Member("meta", MetaObject)>>)),
    Document(TopText(ResultText(Quoted("A"), "0.75"), MetaText(Quoted("1"))),
             JObj(<<Member("result", ResultObject("A")),
                    Member("meta", JObj(<<Member("version", JStr("1"))>>))>>)),
    Document(TopText("[]", MetaText("1")),
             JObj(<<Member("result", JArr), Member("meta", MetaObject)>>)),
    Document(TopText(ResultText(Quoted("A"), "0.75"), "null"),
             JObj(<<Member("result", ResultObject("A")), Member("meta", JNull)>>)),
    Document("{\"result\":" \o ResultText(Quoted("A"), "0.75") \o "}",
             JObj(<<Member("result", ResultObject("A"))>>)),
    Document("{}", JObj(<<>>)) }
\* Values that are no object.
ScalarDocuments ==
  { Document("42", JNum("42")), Document("41", JNum("41")), Document("null", JNull),
    Document("[]", JArr), Document(Quoted("A"), JStr("A")) }
JSONDocuments ==
  CompactDocuments \cup RewrittenDocuments \cup ReorderedDocuments \cup ExtendedDocuments
    \cup MistypedDocuments \cup ScalarDocuments

\* JSON.parse on the output texts of the model; Undefined when it throws.
JSONParse(text) == {d.value : d \in {x \in JSONDocuments : x.text = text}}

ObjectKeys(obj) == [i \in 1..Len(obj.kv) |-> obj.kv[i].k]
\* record[key]: the member's value, Undefined when the key is absent.
Prop(obj, key) ==
  IF \E i \in 1..Len(obj.kv) : obj.kv[i].k = key
    THEN Some(obj.kv[CHOOSE i \in 1..Len(obj.kv) : obj.kv[i].k = key].v)
    ELSE Undefined
IsPlainObject(optValue) == optValue # Undefined /\ Get(optValue).t = "object"

BrutalEvaluation(taxonomy, rawMatch, jsonParseValid, schemaValid, keyOrderValid, semanticHardFailure) ==
  [taxonomy |-> taxonomy, rawMatch |-> rawMatch, jsonParseValid |-> jsonParseValid,
   schemaValid |-> schemaValid, keyOrderValid |-> keyOrderValid,
   semanticHardFailure |-> semanticHardFailure]

\* KeysInOrder altered: the keys are compared as a set.
KeysInAnyOrder(keys, expected) ==
  /\ Len(keys) = Len(expected)
  /\ {keys[i] : i \in 1..Len(keys)} = {expected[i] : i \in 1..Len(expected)}

\* Lines 150, 163 and 164: keys.length === n && keys[0] === ... && keys[n-1] === ...
KeysInOrder(keys, expected) ==
  /\ Len(keys) = Len(expected)
  /\ \A i \in 1..Len(expected) : keys[i] = expected[i]

\* BrutalVerdict altered: a wrong answer is looked at before the schema.
BrutalVerdictAnswerFirst(schemaValid, keyOrderValid, answerValue, expectedLabel) ==
  IF answerValue # Undefined /\ Get(answerValue).t = "string"
       /\ Get(answerValue).s # expectedLabel
    THEN BrutalEvaluation("SEMANTIC_HARD_FAILURE", FALSE, TRUE, schemaValid, keyOrderValid, TRUE)
  ELSE IF ~schemaValid
    THEN BrutalEvaluation("SCHEMA_VIOLATION", FALSE, TRUE, FALSE, keyOrderValid, FALSE)
  ELSE BrutalEvaluation("FORMAT_ONLY_DRIFT", FALSE, TRUE, TRUE, keyOrderValid, FALSE)

\* BrutalVerdict altered: semanticHardFailure is answerValue !== expectedLabel
\* in every verdict.
BrutalVerdictFlagsAnswer(schemaValid, keyOrderValid, answerValue, expectedLabel) ==
  IF ~schemaValid
    THEN BrutalEvaluation("SCHEMA_VIOLATION", FALSE, TRUE, FALSE, keyOrderValid,
                          answerValue # Some(JStr(expectedLabel)))
  ELSE IF Get(answerValue).s # expectedLabel
    THEN BrutalEvaluation("SEMANTIC_HARD_FAILURE", FALSE, TRUE, TRUE, keyOrderValid, TRUE)
  ELSE BrutalEvaluation("FORMAT_ONLY_DRIFT", FALSE, TRUE, TRUE, keyOrderValid, FALSE)

\* Lines 181-216: the verdict on a parsed object.
BrutalVerdict(schemaValid, keyOrderValid, answerValue, expectedLabel) ==
  IF ~schemaValid
    THEN BrutalEvaluation("SCHEMA_VIOLATION", FALSE, TRUE, FALSE, keyOrderValid, FALSE)
  ELSE IF Get(answerValue).s # expectedLabel
    THEN BrutalEvaluation("SEMANTIC_HARD_FAILURE", FALSE, TRUE, TRUE, keyOrderValid, TRUE)
  ELSE BrutalEvaluation("FORMAT_ONLY_DRIFT", FALSE, TRUE, TRUE, keyOrderValid, FALSE)

evaluateBrutalOutput(modelOutput, expectedLabel, expectedLiteral) ==
  IF modelOutput = expectedLiteral
    THEN BrutalEvaluation("EXACT_MATCH", TRUE, TRUE, TRUE, TRUE, FALSE)
  ELSE IF JSONParse(modelOutput) = Undefined
    THEN BrutalEvaluation("NON_JSON_OUTPUT", FALSE, FALSE, FALSE, FALSE, FALSE)
  ELSE IF ~IsPlainObject(JSONParse(modelOutput))
    THEN BrutalEvaluation("SCHEMA_VIOLATION", FALSE, TRUE, FALSE, FALSE, FALSE)
  ELSE
    LET record == Get(JSONParse(modelOutput))
        topKeys == ObjectKeys(record)
        topLevelKeyOrderValid == KeysInOrder(topKeys, <<"result", "meta">>)
        resultValue == Prop(record, "result")
        metaValue == Prop(record, "meta")
        resultIsObject == IsPlainObject(resultValue)
        metaIsObject == IsPlainObject(metaValue)
        resultKeys == IF resultIsObject THEN ObjectKeys(Get(resultValue)) ELSE <<>>
        metaKeys == IF metaIsObject THEN ObjectKeys(Get(metaValue)) ELSE <<>>
        resultKeyOrderValid == KeysInOrder(resultKeys, <<"answer", "confidence">>)
        metaKeyOrderValid == KeysInOrder(metaKeys, <<"version">>)
        answerValue == IF resultIsObject THEN Prop(Get(resultValue), "answer") ELSE Undefined
        confidenceValue == IF resultIsObject THEN Prop(Get(resultValue), "confidence") ELSE Undefined
        versionValue == IF metaIsObject THEN Prop(Get(metaValue), "version") ELSE Undefined
        keyOrderValid == topLevelKeyOrderValid /\ resultKeyOrderValid /\ metaKeyOrderValid
        schemaValid ==
          /\ topLevelKeyOrderValid
          /\ resultIsObject
          /\ metaIsObject
          /\ resultKeyOrderValid
          /\ metaKeyOrderValid
          /\ answerValue # Undefined
          /\ Get(answerValue).t = "string"
          /\ Get(answerValue).s \in Labels
          /\ confidenceValue # Undefined
          /\ Get(confidenceValue).t = "number"
          /\ Get(confidenceValue).s = "0.75"
          /\ versionValue # Undefined
          /\ Get(versionValue).t = "number"
          /\ Get(versionValue).s = "1"
    IN BrutalVerdict(schemaValid, keyOrderValid, answerValue, expectedLabel)

\* ------------------------------------------------------------ observe route
\* String.prototype.toUpperCase on the decisions of the model.
ToUpperCase(s) ==
  CASE s = "pause" -> "PAUSE"
    [] s = "Defer" -> "DEFER"
    [] s = "yield" -> "YIELD"
    [] s = "continue" -> "CONTINUE"
    [] OTHER -> s

\* mapFinalGateDecision altered: the decision is compared as it is spelled.
mapFinalGateDecisionAsSpelled(value) ==
  IF value = "PAUSE" \/ value = "DEFER" THEN "PAUSE"
  ELSE IF value = "YIELD" THEN "YIELD"
  ELSE "CONTINUE"

\* Lines 71-76.
mapFinalGateDecision(value) ==
  LET upper == ToUpperCase(value)
  IN IF upper = "PAUSE" \/ upper = "DEFER" THEN "PAUSE"
     ELSE IF upper = "YIELD" THEN "YIELD"
     ELSE "CONTINUE"

\* ------------------------------------------------------------ the deterministic library
\* The strings the library works on are sequences of characters.  The
\* alphabet has white space (\s), punctuation (\p{P}), a symbol that is
\* neither ("$"), digits, and letters of both cases.
WhiteSpace == {" ", "\n", "\t"}
Punctuation == {".", ",", "!", "?", "\"", "'", ":", ";", "-", "(", ")", "{", "}"}

\* null of a "T | null" result; a value v of such a result is Some(v).
Null == {}

\* A number n / d (d # 0) as a fraction in lowest terms with a positive
\* denominator.  The doubles JavaScript computes for the quotients of small
\* integers are equal exactly when these fractions are.
RECURSIVE GCD(_, _)
GCD(a, b) == IF b = 0 THEN a ELSE GCD(b, a % b)
Abs(n) == IF n < 0 THEN 0 - n ELSE n
Fraction(n, d, g) ==
  IF d < 0 THEN [num |-> (0 - n) \div g, den |-> (0 - d) \div g]
           ELSE [num |-> n \div g, den |-> d \div g]
Quotient(n, d) == Fraction(n, d, GCD(Abs(n), Abs(d)))

\* safeRate altered: only a zero denominator gives null.
safeRateZeroOnly(numerator, denominator) ==
  IF denominator = 0 THEN Null ELSE Some(Quotient(numerator, denominator))

\* safeRate (lines 5-8).
safeRate(numerator, denominator) ==
  IF denominator <= 0 THEN Null ELSE Some(Quotient(numerator, denominator))

RECURSIVE DropLeading(_, _)
DropLeading(s, chars) ==
  IF s = <<>> \/ s[1] \notin chars THEN s ELSE DropLeading(Tail(s), chars)
RECURSIVE DropTrailing(_, _)
DropTrailing(s, chars) ==
  IF s = <<>> \/ s[Len(s)] \notin chars THEN s ELSE DropTrailing(SubSeq(s, 1, Len(s) - 1), chars)

\* String.prototype.trim (lines 12, 18, 36).
trimChars(s) == DropTrailing(DropLeading(s, WhiteSpace), WhiteSpace)

\* String.prototype.toLowerCase (line 14) on the alphabet.
LowerChar(c) ==
  CASE c = "T" -> "t"
    [] c = "Y" -> "y"
    [] c = "E" -> "e"
    [] c = "S" -> "s"
    [] c = "A" -> "a"
    [] c = "B" -> "b"
    [] c = "C" -> "c"
    [] c = "D" -> "d"
    [] OTHER   -> c
toLowerCase(s) == [i \in 1..Len(s) |-> LowerChar(s[i])]

\* The replace of line 13: the leading and the trailing run of white space
\* and punctuation are removed.
StripBoundary(s) ==
  DropTrailing(DropLeading(s, WhiteSpace \cup Punctuation), WhiteSpace \cup Punctuation)

\* boundaryNormalizedLiteral altered: the case is kept.
boundaryNormalizedKeepsCase(value) == StripBoundary(trimChars(value))

\* boundaryNormalizedLiteral (lines 10-15).
boundaryNormalizedLiteral(value) == toLowerCase(StripBoundary(trimChars(value)))

\* String.prototype.startsWith (line 19).
startsWith(s, prefix) ==
  Len(prefix) <= Len(s) /\ SubSeq(s, 1, Len(prefix)) = prefix

\* PrefixWithBoundary altered: the character after the prefix is not looked at.
PrefixWithoutBoundary(expectedLiteral, trimmed) == startsWith(trimmed, expectedLiteral)

\* Lines 19-22 on the trimmed output.
PrefixWithBoundary(expectedLiteral, trimmed) ==
  IF ~startsWith(trimmed, expectedLiteral) THEN FALSE
  ELSE IF Len(trimmed) = Len(expectedLiteral) THEN TRUE
  ELSE trimmed[Len(expectedLiteral) + 1] \in WhiteSpace \cup Punctuation

\* hasExpectedPrefixWithBoundary (lines 17-23).
hasExpectedPrefixWithBoundary(expectedLiteral, rawOutput) ==
  PrefixWithBoundary(expectedLiteral, trimChars(rawOutput))

\* ClassifyNormalized altered: the emptiness test comes after the two
\* formatting rules.
ClassifyEmptinessLast(expectedLiteral, rawOutput, expectedTrimmed, outputTrimmed) ==
  IF expectedTrimmed = outputTrimmed THEN "formattingOnly"
  ELSE IF hasExpectedPrefixWithBoundary(trimChars(expectedLiteral), rawOutput)
    THEN "formattingOnly"
  ELSE "semanticHardFailure"

\* Lines 31-38 on the two normalized forms.
ClassifyNormalized(expectedLiteral, rawOutput, expectedTrimmed, outputTrimmed) ==
  IF Len(expectedTrimmed) = 0 \/ Len(outputTrimmed) = 0 THEN "semanticHardFailure"
  ELSE IF expectedTrimmed = outputTrimmed THEN "formattingOnly"
  ELSE IF hasExpectedPrefixWithBoundary(trimChars(expectedLiteral), rawOutput)
    THEN "formattingOnly"
  ELSE "semanticHardFailure"

\* classifyMismatchKind altered: equal strings are exact whatever the flag.
classifyByComparison(expectedLiteral, rawOutput, exactMatch) ==
  IF exactMatch \/ expectedLiteral = rawOutput THEN "exact"
  ELSE ClassifyNormalized(expectedLiteral, rawOutput,
                          boundaryNormalizedLiteral(expectedLiteral),
                          boundaryNormalizedLiteral(rawOutput))

\* classifyMismatchKind (lines 25-39).
classifyMismatchKind(expectedLiteral, rawOutput, exactMatch) ==
  IF exactMatch THEN "exact"
  ELSE ClassifyNormalized(expectedLiteral, rawOutput,
                          boundaryNormalizedLiteral(expectedLiteral),
                          boundaryNormalizedLiteral(rawOutput))

\* mismatchKindForTurn (lines 41-46); !expected holds for undefined and "".
mismatchKindForTurn(turn) ==
  IF turn.contractExactMatch = Undefined THEN Null
  ELSE IF turn.contractExpectedLiteral = Undefined \/ turn.contractExpectedLiteral = Some(<<>>)
    THEN Some(IF Get(turn.contractExactMatch) THEN "exact" ELSE "semanticHardFailure")
  ELSE Some(classifyMismatchKind(Get(turn.contractExpectedLiteral), turn.baselineOutput,
                                 Get(turn.contractExactMatch)))

\* The arguments the library is called with.
Literal42 == <<"4", "2">>
LiteralYes == <<"Y", "e", "s">>
ProseThen42 ==
  <<"T", "h", "e", " ", "a", "n", "s", "w", "e", "r", " ", "i", "s", " ", "4", "2", ".">>
ExpectedLiterals ==
  { Literal42, <<" ", "4", "2", " ">>, LiteralYes, <<".">>, <<>> }
RawOutputs ==
  { Literal42, <<" ", "4", "2", " ">>, <<"4", "2", ".">>, <<"\"", "4", "2", "\"">>,
    ProseThen42, <<"4", "2", " ", "i", "s", " ", "i", "t">>, <<"4", "2", "1">>,
    <<"4", "2", "$">>, <<"4", "1">>, LiteralYes, <<"y", "e", "s">>,
    <<"Y", "E", "S", "!">>, <<"\n", "Y", "e", "s", ",", " ", "s", "e", "t">>,
    <<"4", "2", " ", "a", "p", "p", "l", "e", "s">>, <<".", " ", "4", "2">>,
    <<".", ".", ".">>, <<>> }
Counts == (0 - 1)..MaxCount
OptionalFlags == {Undefined, Some(TRUE), Some(FALSE)}
LibraryTurns ==
  [contractExactMatch : OptionalFlags,
   contractExpectedLiteral : {Undefined} \cup {Some(e) : e \in ExpectedLiterals},
   baselineOutput : RawOutputs]

\* The outputs evaluateBrutalOutput is called with: every JSON text above
\* and texts JSON.parse throws on.
NonJSONTexts ==
  { "", "A", "Answer: A", "{\"result\":", "```json\n" \o BrutalLiteral("A") \o "\n```",
    "{'result':{'answer':'A','confidence':0.75},'meta':{'version':1}}" }
BrutalOutputs == {d.text : d \in JSONDocuments} \cup NonJSONTexts

\* The numbers generateBrutalPrompts is called with: below, at and above
\* the lower limit, fractions, and one above the upper limit.
RepetitionCounts ==
  {Whole(0 - 1), Whole(0), [num |-> 7, den |-> 2], Whole(4), [num |-> 9, den |-> 2],
   Whole(5), [num |-> 13, den |-> 2], Whole(10001)}

\* ------------------------------------------------------------ state
VARIABLES
  executionMode,     \* useState<ExecutionMode>
  assistedRetryCap,  \* useState<number>
  selectedScript,    \* useState<string>: "literal" (a .jsonl script) or "brutal"
  isRunning,         \* useState<boolean>
  errorMessage,      \* useState<string | null>
  turns,             \* useState<ExperimentTurn[]>: the published trial log
  turnCount,         \* useState<number>
  pauseCount,        \* useState<number>
  constraintCount,   \* useState<number>
  cancelled,         \* runControlRef.current.cancelled, shared by all runs
  runners,           \* the invocations of startExperiment: closure and locals
  started,           \* how many invocations got past the isRunning guard
  requests,          \* history: outbound calls issued so far in an "overlap" session
  stopped,           \* history: stopExperiment was called and startExperiment
                     \* has not been invoked since
  lateEdits,         \* history: configuration edits after the first start
  session,           \* "single": Run is clicked only when no earlier invocation
                     \* is pending; "overlap": it is clicked whenever the button
                     \* is enabled, and the session is followed for RaceRequests
                     \* outbound calls; "live": as "single", with one answer
                     \* of each kind from the completion and the gate
                     \* services; "library" and "route": no page activity
  call,              \* a call of the deterministic library, or of postJson in
                     \* the completion route: the function, its arguments,
                     \* and its result once it has returned
  cleared,           \* history: resetExperiment was called and startExperiment
                     \* has not been invoked since
  stoppedAt          \* history: per pending invocation, the prompt index it was
                     \* at when stopExperiment was first called during it

vars == <<executionMode, assistedRetryCap, selectedScript, isRunning, errorMessage,
          turns, turnCount, pauseCount, constraintCount, cancelled, runners, started,
          requests, stopped, lateEdits, session, call, cleared, stoppedAt>>

Runs == 1..Max(MaxRuns, RaceRuns)
RunLimit == IF session = "overlap" THEN RaceRuns ELSE MaxRuns

NoError == [kind |-> "null", turnIndex |-> 0, retry |-> 0]
ErrorAt(kind, turnIndex, retry) == [kind |-> kind, turnIndex |-> turnIndex, retry |-> retry]

\* The locals of one loop iteration before the first completion returns.
FreshLocals ==
  [userPrompt |-> "", expectedLiteral |-> Undefined, expectedLabel |-> Undefined,
   initialOutput |-> "", finalOutput |-> "",
   initialGateState |-> "CONTINUE", finalGateState |-> "CONTINUE",
   initialExactMatch |-> Undefined, finalExactMatch |-> Undefined,
   finalBrutalEvaluation |-> Undefined,
   retryCountUsed |-> 0, constraintApplied |-> FALSE,
   constraintText |-> "",   \* the local of applyAssistedConstraint (line 687)
   completions |-> 0,    \* history: completion requests made for this prompt
   \* history: the distinct (prompt, options) pairs of these requests and the
   \* content the last of them returned
   requestsMade |-> {}, lastReturned |-> Undefined,
   \* the output in the body of the observe request in flight (line 670), and
   \* history: the final_gate_decision answered for the first and the last output
   observedOutput |-> Undefined, initialDecision |-> Undefined, finalDecision |-> Undefined,
   lateCall |-> FALSE]   \* history: a call of this iteration was issued with the flag set

IdleRunner ==
  [pc |-> "idle",
   assistedEnabled |-> FALSE, assistedRetryCap |-> 0, isBrutalScript |-> FALSE,
   index |-> 0, cur |-> FreshLocals,
   localTurns |-> <<>>, localTurnCount |-> 0, localPauseCount |-> 0,
   localConstraintCount |-> 0,
   \* history: the completion and the proposal requests of the invocation
   completionRequests |-> 0, proposalRequests |-> 0]

\* A returned invocation: its closure is garbage.
DoneRunner == [IdleRunner EXCEPT !.pc = "done"]

CallPcs == {"llm", "observe", "proposal", "constraint", "retry_llm", "retry_observe"}
LoopPcs == CallPcs \cup {"sleep"}

\* The React state a runner step reads and writes, as one value.
Published ==
  [isRunning |-> isRunning, errorMessage |-> errorMessage, turns |-> turns,
   turnCount |-> turnCount, pauseCount |-> pauseCount, constraintCount |-> constraintCount]

\* Runner id ends a step in n.r having set the React state to n.w; c is the
\* cancel flag as the step read it.
Commit(id, n, c) ==
  /\ n.r.pc \in CallPcs /\ session = "overlap" => requests < RaceRequests
  /\ runners' = [runners EXCEPT ![id] =
                   IF n.r.pc \in CallPcs /\ c
                     THEN [n.r EXCEPT !.cur.lateCall = TRUE] ELSE n.r]
  /\ requests' = IF n.r.pc \in CallPcs /\ session = "overlap" THEN requests + 1 ELSE requests
  /\ isRunning' = n.w.isRunning
  /\ errorMessage' = n.w.errorMessage
  /\ turns' = n.w.turns
  /\ turnCount' = n.w.turnCount
  /\ pauseCount' = n.w.pauseCount
  /\ constraintCount' = n.w.constraintCount
  /\ stoppedAt' = IF n.r.pc = "done" THEN [stoppedAt EXCEPT ![id] = Undefined] ELSE stoppedAt

resetRunState(w) ==
  [w EXCEPT !.turns = <<>>, !.turnCount = 0, !.pauseCount = 0,
            !.constraintCount = 0, !.errorMessage = NoError]

\* ------------------------------------------------------------ derived metrics
\* The characters of the strings a trial of the page holds.
BrutalLiteralChars(label) ==
  <<"{", "\"", "r", "e", "s", "u", "l", "t", "\"", ":", "{", "\"", "a", "n", "s", "w", "e", "r",
    "\"", ":", "\"", label, "\"", ",", "\"", "c", "o", "n", "f", "i", "d", "e", "n", "c", "e",
    "\"", ":", "0", ".", "7", "5", "}", ",", "\"", "m", "e", "t", "a", "\"", ":", "{", "\"",
    "v", "e", "r", "s", "i", "o", "n", "\"", ":", "1", "}", "}">>
Chars(str) ==
  CASE str = "" -> <<>>
    [] str = "42" -> Literal42
    [] str = "42." -> <<"4", "2", ".">>
    [] str = "41" -> <<"4", "1">>
    [] OTHER -> BrutalLiteralChars(CHOOSE l \in Labels : str = BrutalLiteral(l))

\* A trial as mismatchKindForTurn reads it.
TurnChars(turn) ==
  [contractExactMatch |-> turn.contractExactMatch,
   contractExpectedLiteral |->
     IF turn.contractExpectedLiteral = Undefined THEN Undefined
     ELSE Some(Chars(Get(turn.contractExpectedLiteral))),
   baselineOutput |-> Chars(turn.baselineOutput)]

\* The filtered arrays of lines 484-537 are the sets of their positions in
\* the log.
\* deterministicTurns altered: the filter is left out.
deterministicTurnsUnfiltered == 1..Len(turns)

\* Lines 484-487.
deterministicTurns == {k \in 1..Len(turns) : turns[k].contractExactMatch # Undefined}
deterministicTrialCount == Cardinality(deterministicTurns)
deterministicExactMatchCount ==
  Cardinality({k \in deterministicTurns : turns[k].contractExactMatch = Some(TRUE)})
deterministicViolationCount == deterministicTrialCount - deterministicExactMatchCount
KindCount(kind) ==
  Cardinality({k \in deterministicTurns : mismatchKindForTurn(TurnChars(turns[k])) = Some(kind)})
deterministicTrimmedSemanticMismatchCount == KindCount("semanticHardFailure")
deterministicFormatOnlyMismatchCount == KindCount("formattingOnly")

\* Lines 509-531.
brutalTurns == {k \in 1..Len(turns) : turns[k].taxonomy # Undefined}
brutalTrialCount == Cardinality(brutalTurns)
TaxonomyCount(taxonomy) ==
  Cardinality({k \in brutalTurns : turns[k].taxonomy = Some(taxonomy)})
brutalExactMatchCount == TaxonomyCount("EXACT_MATCH")
brutalFormatOnlyMismatchCount == TaxonomyCount("FORMAT_ONLY_DRIFT")
brutalSchemaViolationCount == TaxonomyCount("SCHEMA_VIOLATION")
brutalSemanticHardFailureCount == TaxonomyCount("SEMANTIC_HARD_FAILURE")
brutalNonJsonOutputCount == TaxonomyCount("NON_JSON_OUTPUT")
brutalRawByteMismatchCount == brutalTrialCount - brutalExactMatchCount

\* Lines 539-558.
initialEvaluatedTurns == {k \in 1..Len(turns) : turns[k].initialExactMatch # Undefined}
initialFailureCount ==
  Cardinality({k \in initialEvaluatedTurns : turns[k].initialExactMatch = Some(FALSE)})
correctionSuccessCount ==
  Cardinality({k \in 1..Len(turns) :
                 turns[k].initialExactMatch = Some(FALSE) /\ turns[k].correctionSucceeded})
correctionSuccessRate == safeRate(correctionSuccessCount, initialFailureCount)

\* buildSnapshot (lines 956-1052): the exported metrics, under the execution
\* mode selected when the snapshot is built (line 470).
buildSnapshot ==
  [turns |-> turnCount,
   pauses |-> pauseCount,
   initialFailureCount |-> initialFailureCount,
   correctionSuccessCount |-> IF executionMode = "assisted" THEN correctionSuccessCount ELSE 0,
   correctionSuccessRate |-> IF executionMode = "assisted" THEN correctionSuccessRate ELSE Null,
   assistedRetryCap |-> assistedRetryCap,
   assistedEnabled |-> executionMode = "assisted",
   constraints |-> constraintCount]

\* ------------------------------------------------------------ the runner
BrutalPrompts == generateBrutalPrompts(Whole(RepetitionCount))

runPrompts(r) == IF r.isBrutalScript THEN BrutalPrompts ELSE ScriptFile

turnIndexOf(r) == r.index + 1

\* isBrutalScript && expectedLiteral && expectedLabel
UsesLocalGate(r) ==
  /\ r.isBrutalScript
  /\ r.cur.expectedLiteral # Undefined
  /\ r.cur.expectedLabel # Undefined
  /\ Get(r.cur.expectedLabel) # ""

\* Lines 950-953: the statements after the prompt loop.
EndRun(w, r) ==
  [w |-> [w EXCEPT !.constraintCount = r.localConstraintCount, !.isRunning = FALSE],
   r |-> DoneRunner]

\* AbortRun altered: the error is surfaced but the loop goes on to its delay.
AbortRunLoopsOn(w, r, kind, retry) ==
  [w |-> [w EXCEPT !.errorMessage = ErrorAt(kind, turnIndexOf(r), retry)],
   r |-> [r EXCEPT !.pc = "sleep", !.cur = FreshLocals]]

\* A catch block of the loop: surface the error, then break out to line 950.
AbortRun(w, r, kind, retry) ==
  EndRun([w EXCEPT !.errorMessage = ErrorAt(kind, turnIndexOf(r), retry),
                   !.isRunning = FALSE],
         r)

\* Lines 765-770: the options of the completion requests of a run.
brutalRequestOptions(r) ==
  IF r.isBrutalScript
    THEN Some([maxTokens |-> "min(llmMaxTokens, BRUTAL_MAX_TOKENS_CAP)",
               systemPrompt |-> "BRUTAL_SYSTEM_PROMPT"])
    ELSE Undefined

\* The arguments of a requestLLM call.
CompletionRequest(prompt, options) == [prompt |-> prompt, options |-> options]

\* Lines 758-774: the constants of one loop iteration and its first request.
IterationLocals(scriptPrompt, expectedLiteral, options) ==
  [FreshLocals EXCEPT !.userPrompt = scriptPrompt.prompt,
                      !.expectedLiteral = expectedLiteral,
                      !.expectedLabel = ExpectedLabelOf(scriptPrompt, expectedLiteral),
                      !.completions = 1,
                      !.requestsMade = {CompletionRequest(scriptPrompt.prompt, options)}]

\* LoopHead altered: the cancel check of line 756 is left out.
LoopHeadIgnoresCancel(w, r, c) ==
  IF r.index < Len(runPrompts(r))
    THEN [w |-> w,
          r |-> [r EXCEPT !.pc = "llm",
                          !.completionRequests = @ + 1,
                          !.cur = IterationLocals(runPrompts(r)[r.index + 1],
                                                  normalizeExpectedLiteral(runPrompts(r)[r.index + 1]),
                                                  brutalRequestOptions(r))]]
    ELSE EndRun(w, r)

\* Lines 755-774: loop condition, cancel check, first completion request.
LoopHead(w, r, c) ==
  IF r.index < Len(runPrompts(r)) /\ ~c
    THEN [w |-> w,
          r |-> [r EXCEPT !.pc = "llm",
                          !.completionRequests = @ + 1,
                          !.cur = IterationLocals(runPrompts(r)[r.index + 1],
                                                  normalizeExpectedLiteral(runPrompts(r)[r.index + 1]),
                                                  brutalRequestOptions(r))]]
    ELSE EndRun(w, r)

BrutalField(e, f) == IF e = Undefined THEN Undefined ELSE Some(Get(e)[f])

\* Lines 914-939.  c is the cancel flag when the trial is emitted.
newTurn(r, correctionSucceeded, c) ==
  [turnIndex |-> turnIndexOf(r),
   prompt |-> r.cur.userPrompt,
   initialOutput |-> r.cur.initialOutput,
   baselineOutput |-> r.cur.finalOutput,
   initialGateState |-> r.cur.initialGateState,
   gateState |-> r.cur.finalGateState,
   initialExactMatch |-> r.cur.initialExactMatch,
   constraintApplied |-> r.cur.constraintApplied,
   contractExpectedLiteral |-> r.cur.expectedLiteral,
   contractExactMatch |-> r.cur.finalExactMatch,
   expectedLabel |-> r.cur.expectedLabel,
   retryCountUsed |-> r.cur.retryCountUsed,
   correctionSucceeded |-> correctionSucceeded,
   rawMatch |-> BrutalField(r.cur.finalBrutalEvaluation, "rawMatch"),
   jsonParseValid |-> BrutalField(r.cur.finalBrutalEvaluation, "jsonParseValid"),
   schemaValid |-> BrutalField(r.cur.finalBrutalEvaluation, "schemaValid"),
   keyOrderValid |-> BrutalField(r.cur.finalBrutalEvaluation, "keyOrderValid"),
   semanticHardFailure |-> BrutalField(r.cur.finalBrutalEvaluation, "semanticHardFailure"),
   taxonomy |-> BrutalField(r.cur.finalBrutalEvaluation, "taxonomy"),
   \* history: the closure the trial was produced under, its requests, and
   \* whether the cancel flag was set when it was emitted
   assistedEnabled |-> r.assistedEnabled,
   assistedRetryCap |-> r.assistedRetryCap,
   completions |-> r.cur.completions,
   stopSignaled |-> c,
   \* history: the output last sent to the observe route and the decisions
   \* the gate answered for the first and for the last output
   observedOutput |-> r.cur.observedOutput,
   initialDecision |-> r.cur.initialDecision,
   finalDecision |-> r.cur.finalDecision,
   \* history: the distinct requests made and the content last returned
   requestsMade |-> r.cur.requestsMade,
   lastReturned |-> r.cur.lastReturned]

\* PublishTurns altered: the cancel check of line 946 is left out.
PublishTurnsThenSleeps(w, r, paused, c) ==
  [w |-> [w EXCEPT !.pauseCount = IF paused THEN r.localPauseCount ELSE @,
                   !.turns = r.localTurns,
                   !.turnCount = r.localTurnCount],
   r |-> [r EXCEPT !.pc = "sleep", !.cur = FreshLocals]]

\* Lines 941-947: publish the log, cancel check, pacing delay.
PublishTurns(w, r, paused, c) ==
  IF c
    THEN EndRun([w EXCEPT !.pauseCount = IF paused THEN r.localPauseCount ELSE @,
                          !.turns = r.localTurns,
                          !.turnCount = r.localTurnCount],
                r)
    ELSE [w |-> [w EXCEPT !.pauseCount = IF paused THEN r.localPauseCount ELSE @,
                          !.turns = r.localTurns,
                          !.turnCount = r.localTurnCount],
          r |-> [r EXCEPT !.pc = "sleep", !.cur = FreshLocals]]

\* Lines 909-947: pause counter, emission, cancel check, pacing delay.
EmitTurn(w, r, correctionSucceeded, c) ==
  PublishTurns(w,
               [r EXCEPT !.localPauseCount = IF r.cur.finalGateState = "PAUSE" THEN @ + 1 ELSE @,
                         !.localTurns = Append(@, newTurn(r, correctionSucceeded, c)),
                         !.localTurnCount = @ + 1],
               r.cur.finalGateState = "PAUSE",
               c)

\* RetryBlockEntered altered: the block is entered in passive mode too.
RetryBlockEnteredInAnyMode(r) ==
  /\ r.cur.expectedLiteral # Undefined
  /\ r.cur.initialExactMatch = Some(FALSE)

\* Line 819: whether the assisted retry block is entered.
RetryBlockEntered(r) ==
  /\ r.assistedEnabled
  /\ r.cur.expectedLiteral # Undefined
  /\ r.cur.initialExactMatch = Some(FALSE)

\* RetryLoopGuard altered: one retry more than the cap.
RetryLoopGuardOffByOne(retryCountUsed, retryCap, finalExactMatch) ==
  retryCountUsed <= retryCap /\ finalExactMatch = Some(FALSE)

\* RetryLoopGuard altered: retries go on after an exact match.
RetryLoopGuardIgnoresMatch(retryCountUsed, retryCap, finalExactMatch) ==
  retryCountUsed < retryCap

\* Line 820: the condition of the while loop.
RetryLoopGuard(retryCountUsed, retryCap, finalExactMatch) ==
  retryCountUsed < retryCap /\ finalExactMatch = Some(FALSE)

\* CorrectionSucceeded altered: any retried trial counts as corrected.
CorrectionSucceededOnAnyRetry(finalExactMatch, retryCountUsed) ==
  retryCountUsed > 0

\* CorrectionSucceeded altered: the flag keeps the value it was declared with
\* (line 816).
CorrectionSucceededNeverSet(finalExactMatch, retryCountUsed) ==
  FALSE

\* Line 904.
CorrectionSucceeded(finalExactMatch, retryCountUsed) ==
  finalExactMatch = Some(TRUE) /\ retryCountUsed > 0

\* IssueRetry altered: the retry is not counted.
IssueRetryUncounted(w, r) ==
  [w |-> w,
   r |-> [r EXCEPT !.pc = "retry_llm", !.cur.completions = @ + 1,
                   !.cur.requestsMade =
                     @ \cup {CompletionRequest(r.cur.userPrompt, brutalRequestOptions(r))},
                   !.completionRequests = @ + 1]]

\* IssueRetry altered: the retry asks with the constraint text put before
\* the prompt.
IssueRetryConstrained(w, r) ==
  [w |-> w,
   r |-> [r EXCEPT !.pc = "retry_llm", !.cur.retryCountUsed = @ + 1,
                   !.cur.completions = @ + 1,
                   !.cur.requestsMade =
                     @ \cup {CompletionRequest(r.cur.constraintText \o "\n" \o r.cur.userPrompt,
                                                brutalRequestOptions(r))},
                   !.completionRequests = @ + 1]]

\* Lines 868-872: count the retry and request the completion again.
IssueRetry(w, r) ==
  [w |-> w,
   r |-> [r EXCEPT !.pc = "retry_llm", !.cur.retryCountUsed = @ + 1,
                   !.cur.completions = @ + 1,
                   !.cur.requestsMade =
                     @ \cup {CompletionRequest(r.cur.userPrompt, brutalRequestOptions(r))},
                   !.completionRequests = @ + 1]]

\* ConstraintNeeded altered: any gate state but CONTINUE asks for a constraint.
ConstraintNeededUnlessContinue(r) ==
  ~r.isBrutalScript /\ r.cur.finalGateState # "CONTINUE"

\* Line 823: whether the iteration proposes and submits a constraint first.
ConstraintNeeded(r) ==
  ~r.isBrutalScript /\ r.cur.finalGateState = "PAUSE"

\* RetryLoop altered: the trial is emitted without any retry.
RetryLoopGivesUp(w, r, c) ==
  EmitTurn(w, r, FALSE, c)

\* Lines 819-905 from the head of the while loop, then emission.
RetryLoop(w, r, c) ==
  IF RetryBlockEntered(r)
    THEN IF RetryLoopGuard(r.cur.retryCountUsed, r.assistedRetryCap, r.cur.finalExactMatch) /\ ~c
           THEN IF ConstraintNeeded(r)
                  THEN [w |-> w, r |-> [r EXCEPT !.pc = "proposal", !.proposalRequests = @ + 1]]
                  ELSE IssueRetry(w, r)
           ELSE EmitTurn(w, r, CorrectionSucceeded(r.cur.finalExactMatch, r.cur.retryCountUsed), c)
    ELSE EmitTurn(w, r, FALSE, c)

\* Lines 783 and 881: expectedLiteral !== undefined ? output === expectedLiteral : undefined.
ExactMatch(output, expectedLiteral) ==
  IF expectedLiteral # Undefined THEN Some(output = Get(expectedLiteral)) ELSE Undefined

\* Lines 790-794 and 884-888: the local gate of a brutal script.
LocalEvaluation(r, output) ==
  IF UsesLocalGate(r)
    THEN Some(evaluateBrutalOutput(output, Get(r.cur.expectedLabel), Get(r.cur.expectedLiteral)))
    ELSE Undefined

\* LocalGate altered: a non-exact output yields instead of pausing.
LocalGateYields(e) == IF Get(e).taxonomy # "EXACT_MATCH" THEN "YIELD" ELSE "CONTINUE"

\* Lines 793 and 887.
LocalGate(e) == IF Get(e).taxonomy # "EXACT_MATCH" THEN "PAUSE" ELSE "CONTINUE"

\* Assigned altered: a retry output leaves the gate state as it was.
AssignedKeepsGate(r, output, initial, exact, e) ==
  [r EXCEPT !.cur.initialOutput = IF initial THEN output ELSE @,
            !.cur.initialExactMatch = IF initial THEN exact ELSE @,
            !.cur.finalOutput = output,
            !.cur.finalExactMatch = exact,
            !.cur.finalBrutalEvaluation = IF e # Undefined THEN e ELSE @,
            !.cur.initialGateState = IF initial /\ e # Undefined THEN LocalGate(e) ELSE @,
            !.cur.finalGateState = IF initial /\ e # Undefined THEN LocalGate(e) ELSE @]

\* The assignments of lines 783-794 (initial) and 881-888 (retry).
Assigned(r, output, initial, exact, e) ==
  [r EXCEPT !.cur.initialOutput = IF initial THEN output ELSE @,
            !.cur.initialExactMatch = IF initial THEN exact ELSE @,
            !.cur.finalOutput = output,
            !.cur.finalExactMatch = exact,
            !.cur.finalBrutalEvaluation = IF e # Undefined THEN e ELSE @,
            !.cur.initialGateState = IF initial /\ e # Undefined THEN LocalGate(e) ELSE @,
            !.cur.finalGateState = IF e # Undefined THEN LocalGate(e) ELSE @]

\* Lines 783-794 and 881-888: evaluate an output against the contract.
Evaluated(r, output, initial) ==
  Assigned(r, output, initial, ExactMatch(output, r.cur.expectedLiteral),
           LocalEvaluation(r, output))

\* AfterCompletion altered: no output is sent to the observe route.
AfterCompletionUnobserved(w, r, c, observePc) == RetryLoop(w, r, c)

\* Lines 790-810 and 884-901: a brutal script goes on with its local gate
\* state, a literal script asks the observe route.
AfterCompletion(w, r, c, observePc) ==
  IF UsesLocalGate(r)
    THEN RetryLoop(w, r, c)
    ELSE [w |-> w, r |-> [r EXCEPT !.pc = observePc,
                                   !.cur.observedOutput = Some(r.cur.finalOutput)]]

\* ------------------------------------------------------------ collaborators
\* What a completion request can return for the prompt in flight: the
\* expected literal, a wrong answer, and (literal scripts) an empty or a
\* whitespace-only content.  A "live" session has one text of each kind: the
\* literal, a wrong answer, a blank text.
WrongLabel(label) == IF label = "A" THEN "B" ELSE "A"
LLMOutputs(r) ==
  IF r.isBrutalScript
    THEN {BrutalLiteral(Get(r.cur.expectedLabel)),
          BrutalLiteral(WrongLabel(Get(r.cur.expectedLabel)))}
    ELSE IF session = "live" THEN {"42", "41", " "}
    ELSE {"42", "42.", "41", "", " "}

\* final_gate_decision values the gate service answers with; a "live"
\* session has one spelling for each gate state.
Decisions ==
  IF session = "live" THEN {"PAUSE", "yield", "ALLOW"}
  ELSE {"PAUSE", "Defer", "yield", "ALLOW"}

\* Texts the proposal completion can return.
Proposals == {"Answer with the literal only.", "\n"}

\* ObserveRoute altered: the blank test of lines 110-113 is left out.
ObserveRouteAcceptsBlank(output, upstream) ==
  IF upstream = "fail" THEN "error"
  ELSE mapFinalGateDecision(upstream)

\* The observe route (POST): 400 on a blank output, 500 when the core or
\* the gate fails, else the mapped decision.  upstream is "fail" or a decision.
ObserveRoute(output, upstream) ==
  IF Trim(output) = "" THEN "error"
  ELSE IF upstream = "fail" THEN "error"
  ELSE mapFinalGateDecision(upstream)

\* ------------------------------------------------------------ user actions
\* history: stopExperiment is called while these invocations are pending.
StopSeen ==
  [id \in Runs |->
     IF runners[id].pc \in {"idle", "done"} \/ stoppedAt[id] # Undefined
       THEN stoppedAt[id]
       ELSE Some(runners[id].index)]

stopExperiment ==
  /\ isRunning            \* the Stop button is disabled while not running
  /\ cancelled' = TRUE
  /\ isRunning' = FALSE
  /\ stopped' = TRUE
  /\ UNCHANGED <<executionMode, assistedRetryCap, selectedScript, errorMessage,
                 turns, turnCount, pauseCount, constraintCount, runners, started,
                 requests, lateEdits, session, call, cleared>>
  /\ stoppedAt' = StopSeen

resetExperiment ==
  /\ cancelled' = TRUE
  /\ isRunning' = FALSE
  /\ turns' = <<>>
  /\ turnCount' = 0
  /\ pauseCount' = 0
  /\ constraintCount' = 0
  /\ errorMessage' = NoError
  /\ stoppedAt' = StopSeen
  /\ cleared' = TRUE
  /\ UNCHANGED <<executionMode, assistedRetryCap, selectedScript, runners, started,
                 requests, stopped, lateEdits, session, call>>

\* The configuration controls are enabled while not running; the model
\* bounds how many edits follow the first start.
EditAllowed ==
  /\ started = 0 \/ lateEdits < MaxLateEdits
  /\ lateEdits' = IF started = 0 THEN lateEdits ELSE lateEdits + 1

setExecutionMode ==
  /\ ~isRunning
  /\ EditAllowed
  /\ executionMode' = IF executionMode = "passive" THEN "assisted" ELSE "passive"
  /\ UNCHANGED <<assistedRetryCap, selectedScript, isRunning, errorMessage, turns,
                 turnCount, pauseCount, constraintCount, cancelled, runners, started,
                 requests, stopped, session, call, cleared, stoppedAt>>

setAssistedRetryCap ==
  /\ ~isRunning
  /\ EditAllowed
  /\ executionMode = "assisted"
  /\ \E cap \in ASSISTED_RETRY_CAP_OPTIONS \ {assistedRetryCap} : assistedRetryCap' = cap
  /\ UNCHANGED <<executionMode, selectedScript, isRunning, errorMessage, turns,
                 turnCount, pauseCount, constraintCount, cancelled, runners, started,
                 requests, stopped, session, call, cleared, stoppedAt>>

setSelectedScript ==
  /\ ~isRunning
  /\ EditAllowed
  /\ selectedScript' = IF selectedScript = "literal" THEN "brutal" ELSE "literal"
  /\ UNCHANGED <<executionMode, assistedRetryCap, isRunning, errorMessage, turns,
                 turnCount, pauseCount, constraintCount, cancelled, runners, started,
                 requests, stopped, session, call, cleared, stoppedAt>>

\* The closure of an invocation (lines 724-731).
Closure ==
  [IdleRunner EXCEPT !.assistedEnabled = (executionMode = "assisted"),
                     !.assistedRetryCap = assistedRetryCap,
                     !.isBrutalScript = (selectedScript = "brutal")]

\* Lines 722-774, up to the first await.
startExperiment ==
  /\ ~isRunning
  /\ started < RunLimit
  /\ session = "overlap" \/ \A id \in Runs : runners[id].pc \in {"idle", "done"}
  /\ started' = started + 1
  /\ IF selectedScript = "brutal"
       THEN /\ Commit(started + 1,
                      LoopHead([resetRunState(Published) EXCEPT !.isRunning = TRUE], Closure, FALSE),
                      FALSE)
            /\ cancelled' = FALSE
       ELSE /\ Commit(started + 1,
                      [w |-> resetRunState(Published), r |-> [Closure EXCEPT !.pc = "load"]],
                      FALSE)
            /\ UNCHANGED cancelled
  /\ stopped' = FALSE
  /\ UNCHANGED <<executionMode, assistedRetryCap, selectedScript, lateEdits, session, call>>
  /\ cleared' = FALSE

\* ------------------------------------------------------------ runner steps
\* loadScriptPrompts returns (lines 733-774).
LoadReturns(id) ==
  /\ runners[id].pc = "load"
  /\ \/ /\ Commit(id, LoopHead([Published EXCEPT !.isRunning = TRUE], runners[id], FALSE), FALSE)
        /\ cancelled' = FALSE
     \/ /\ Commit(id, [w |-> [Published EXCEPT !.errorMessage = ErrorAt("Unable to load script", 0, 0)],
                       r |-> DoneRunner], FALSE)
        /\ UNCHANGED cancelled
  /\ UNCHANGED <<executionMode, assistedRetryCap, selectedScript, started, stopped,
                 lateEdits, session, call, cleared>>

\* history: the content the completion request in flight returned.
Returned(r, output) == [r EXCEPT !.cur.lastReturned = Some(output)]

\* The first completion of a prompt returns (lines 774-810).
CompletionReturns(id) ==
  /\ runners[id].pc = "llm"
  /\ \/ Commit(id, AbortRun(Published, runners[id], "LLM failure", 0), cancelled)
     \/ \E output \in LLMOutputs(runners[id]) :
          Commit(id, AfterCompletion(Published, Evaluated(Returned(runners[id], output), output, TRUE),
                                     cancelled, "observe"),
                 cancelled)
  /\ UNCHANGED <<executionMode, assistedRetryCap, selectedScript, cancelled, started,
                 stopped, lateEdits, session, call, cleared>>

\* history: the decision the gate answered to the request in flight.
Decided(r, upstream, initial) ==
  [r EXCEPT !.cur.initialDecision = IF initial THEN Some(upstream) ELSE @,
            !.cur.finalDecision = Some(upstream)]

\* Lines 797-819: the gate state of the first output, then the retry block.
Observed(w, r, gate, c) ==
  IF gate = "error"
    THEN AbortRun(w, r, "GuardianAI observe/decide failed", 0)
    ELSE RetryLoop(w, [r EXCEPT !.cur.initialGateState = gate, !.cur.finalGateState = gate], c)

\* observeOutput for the first output returns (lines 797-819).
ObserveReturns(id) ==
  /\ runners[id].pc = "observe"
  /\ \E upstream \in Decisions \cup {"fail"} :
       Commit(id, Observed(Published, Decided(runners[id], upstream, TRUE),
                           ObserveRoute(Get(runners[id].cur.observedOutput), upstream),
                           cancelled),
              cancelled)
  /\ UNCHANGED <<executionMode, assistedRetryCap, selectedScript, cancelled, started,
                 stopped, lateEdits, session, call, cleared>>

\* Proposed altered: the emptiness test of line 688 is left out.
ProposedUnchecked(w, r, proposal) ==
  [w |-> w, r |-> [r EXCEPT !.pc = "constraint", !.cur.constraintText = Trim(proposal)]]

\* Lines 687-692: an empty constraint text throws, else it is submitted.
Proposed(w, r, proposal) ==
  IF Trim(proposal) = ""
    THEN AbortRun(w, r, "Constraint submission failed", 0)
    ELSE [w |-> w, r |-> [r EXCEPT !.pc = "constraint", !.cur.constraintText = Trim(proposal)]]

\* The proposal completion of applyAssistedConstraint returns (lines 681-696).
ProposalReturns(id) ==
  /\ runners[id].pc = "proposal"
  /\ \/ Commit(id, AbortRun(Published, runners[id], "Constraint submission failed", 0), cancelled)
     \/ \E proposal \in Proposals :
          Commit(id, Proposed(Published, runners[id], proposal), cancelled)
  /\ UNCHANGED <<executionMode, assistedRetryCap, selectedScript, cancelled, started,
                 stopped, lateEdits, session, call, cleared>>

\* Lines 853-866: the constraint was applied.
ConstraintApplied(w, r) ==
  [w |-> [w EXCEPT !.constraintCount = r.localConstraintCount + 1],
   r |-> [r EXCEPT !.cur.constraintApplied = TRUE, !.localConstraintCount = @ + 1]]

\* The constraint submission returns (lines 692-696, 853-872).
ConstraintReturns(id) ==
  /\ runners[id].pc = "constraint"
  /\ \/ Commit(id, AbortRun(Published, runners[id], "Constraint submission failed", 0), cancelled)
     \/ Commit(id, IssueRetry(ConstraintApplied(Published, runners[id]).w,
                              ConstraintApplied(Published, runners[id]).r),
               cancelled)
  /\ UNCHANGED <<executionMode, assistedRetryCap, selectedScript, cancelled, started,
                 stopped, lateEdits, session, call, cleared>>

\* A retry completion returns (lines 872-901).
RetryCompletionReturns(id) ==
  /\ runners[id].pc = "retry_llm"
  /\ \/ Commit(id, AbortRun(Published, runners[id], "LLM retry failure", 0), cancelled)
     \/ \E output \in LLMOutputs(runners[id]) :
          Commit(id, AfterCompletion(Published, Evaluated(Returned(runners[id], output), output, FALSE),
                                     cancelled, "retry_observe"),
                 cancelled)
  /\ UNCHANGED <<executionMode, assistedRetryCap, selectedScript, cancelled, started,
                 stopped, lateEdits, session, call, cleared>>

\* Lines 889-902 and 820: the gate state of a retry output, then the loop head.
RetryObserved(w, r, gate, c) ==
  IF gate = "error"
    THEN AbortRun(w, r, "GuardianAI observe/decide failed at retry", r.cur.retryCountUsed)
    ELSE RetryLoop(w, [r EXCEPT !.cur.finalGateState = gate], c)

\* observeOutput for a retry output returns (lines 889-902, 820).
RetryObserveReturns(id) ==
  /\ runners[id].pc = "retry_observe"
  /\ \E upstream \in Decisions \cup {"fail"} :
       Commit(id, RetryObserved(Published, Decided(runners[id], upstream, FALSE),
                                ObserveRoute(Get(runners[id].cur.observedOutput), upstream),
                                cancelled),
              cancelled)
  /\ UNCHANGED <<executionMode, assistedRetryCap, selectedScript, cancelled, started,
                 stopped, lateEdits, session, call, cleared>>

\* The pacing delay elapses (lines 947, 755-774).
SleepReturns(id) ==
  /\ runners[id].pc = "sleep"
  /\ Commit(id, LoopHead(Published, [runners[id] EXCEPT !.index = @ + 1], cancelled), cancelled)
  /\ UNCHANGED <<executionMode, assistedRetryCap, selectedScript, cancelled, started,
                 stopped, lateEdits, session, call, cleared>>

\* ------------------------------------------------------------ library calls
PageVars == <<executionMode, assistedRetryCap, selectedScript, isRunning, errorMessage,
              turns, turnCount, pauseCount, constraintCount, cancelled, runners, started,
              requests, stopped, lateEdits, session, cleared, stoppedAt>>

NoCall ==
  [fn |-> "none", numerator |-> 0, denominator |-> 0,
   expectedLiteral |-> <<>>, rawOutput |-> <<>>, exactMatch |-> FALSE,
   turn |-> [contractExactMatch |-> Undefined, contractExpectedLiteral |-> Undefined,
             baselineOutput |-> <<>>],
   modelOutput |-> "", expectedLabel |-> "", brutalLiteral |-> "",
   repetitionCount |-> Whole(0), prompts |-> <<>>,
   returned |-> FALSE, rate |-> Null, kind |-> Null, evaluation |-> Null]

safeRateReturns ==
  /\ call.fn = "safeRate" /\ ~call.returned
  /\ call' = [call EXCEPT !.returned = TRUE,
                          !.rate = safeRate(call.numerator, call.denominator)]
  /\ UNCHANGED PageVars

classifyMismatchKindReturns ==
  /\ call.fn = "classifyMismatchKind" /\ ~call.returned
  /\ call' = [call EXCEPT !.returned = TRUE,
                          !.kind = Some(classifyMismatchKind(call.expectedLiteral,
                                                             call.rawOutput, call.exactMatch))]
  /\ UNCHANGED PageVars

mismatchKindForTurnReturns ==
  /\ call.fn = "mismatchKindForTurn" /\ ~call.returned
  /\ call' = [call EXCEPT !.returned = TRUE, !.kind = mismatchKindForTurn(call.turn)]
  /\ UNCHANGED PageVars

evaluateBrutalOutputReturns ==
  /\ call.fn = "evaluateBrutalOutput" /\ ~call.returned
  /\ call' = [call EXCEPT !.returned = TRUE,
                          !.evaluation = Some(evaluateBrutalOutput(call.modelOutput,
                                                                   call.expectedLabel,
                                                                   call.brutalLiteral))]
  /\ UNCHANGED PageVars

generateBrutalPromptsReturns ==
  /\ call.fn = "generateBrutalPrompts" /\ ~call.returned
  /\ call' = [call EXCEPT !.returned = TRUE,
                          !.prompts = generateBrutalPrompts(call.repetitionCount)]
  /\ UNCHANGED PageVars

\* ------------------------------------------------------------ completion route
\* src/app/api/llm/route.ts, lines 320-322.
MAX_RETRY_ATTEMPTS == 4
RETRYABLE_HTTP_STATUSES == {408, 409, 425, 429, 500, 502, 503, 504}

\* What one fetch of postJson can settle with (lines 444-450): a response
\* with a status and a body text, or a rejection: the AbortError of the
\* 30 s timer (line 441), the TypeError of a network failure, or another
\* error.
Statuses == {200, 204, 400, 401, 404, 408, 409, 425, 429, 500, 501, 502, 503, 504}
ResponseOk(status) == status \in 200..299
BodyTexts(status) ==
  IF status = 200 THEN {"{\"id\":1}", "done"}
  ELSE IF status = 204 THEN {""}
  ELSE {"{\"error\":\"x\"}"}
Rejections ==
  {[kind |-> k, status |-> 0, text |-> ""] : k \in {"AbortError", "TypeError", "Error"}}
FetchOutcomes ==
  UNION {{[kind |-> "response", status |-> st, text |-> tx] : tx \in BodyTexts(st)} :
           st \in Statuses}
    \cup Rejections

\* Lines 450-458: the payload is {} for an empty body, the parsed document
\* for a JSON body, and {raw: text} for any other text.
PayloadOf(text) ==
  IF text = "" THEN [t |-> "object", raw |-> Undefined, json |-> "{}"]
  ELSE IF text \in {"{\"id\":1}", "{\"error\":\"x\"}"}
    THEN [t |-> "object", raw |-> Undefined, json |-> text]
    ELSE [t |-> "object", raw |-> Some(text), json |-> ""]

\* new HTTPStatusError(status, payload) (lines 375-385) and the rejections of
\* fetch, by class and name.
HTTPStatusError(status, payload) ==
  [name |-> "HTTPStatusError", class |-> "Error", status |-> status, payload |-> Some(payload)]
RejectionError(kind) ==
  [name |-> kind, class |-> IF kind = "TypeError" THEN "TypeError" ELSE "Error",
   status |-> 0, payload |-> Undefined]

\* Lines 333-340.
isAbortError(error) == error.name = "AbortError"
isNetworkError(error) == error.class = "TypeError"

\* RetryableStatus altered: every failing status is retried.
RetryableStatusAny(status) ==
  TRUE

\* Line 467.
RetryableStatus(status) ==
  status \in RETRYABLE_HTTP_STATUSES

\* A call of postJson: the loop counter, where the call is (awaiting the
\* fetch, awaiting the delay, returned, thrown), lastError, and what it
\* returned or threw.  history: the outcomes of its fetches, in order.
PostJsonCall ==
  [fn |-> "postJson", attempt |-> 1, pc |-> "fetch", lastError |-> Undefined,
   result |-> Undefined, thrown |-> Undefined, fetches |-> <<>>]

\* The catch block (lines 474-480), entered with the error thrown in the try
\* block: a rejection of fetch or the HTTPStatusError of line 469.
Catch(c, error) ==
  IF ~(isAbortError(error) \/ isNetworkError(error)) \/ c.attempt >= MAX_RETRY_ATTEMPTS
    THEN [c EXCEPT !.lastError = Some(error), !.pc = "thrown", !.thrown = Some(error)]
    ELSE [c EXCEPT !.lastError = Some(error), !.pc = "sleep"]

\* The try block from the response on (lines 450-472).
Responded(c, response) ==
  IF ResponseOk(response.status)
    THEN [c EXCEPT !.pc = "returned", !.result = Some(PayloadOf(response.text))]
    ELSE IF ~RetryableStatus(response.status) \/ c.attempt >= MAX_RETRY_ATTEMPTS
      THEN Catch([c EXCEPT !.lastError = Some(HTTPStatusError(response.status,
                                                              PayloadOf(response.text)))],
                 HTTPStatusError(response.status, PayloadOf(response.text)))
      ELSE [c EXCEPT !.lastError = Some(HTTPStatusError(response.status,
                                                        PayloadOf(response.text))),
                     !.pc = "sleep"]

\* The fetch of the attempt in progress settles (lines 444-481).
FetchSettles ==
  /\ call.fn = "postJson" /\ call.pc = "fetch"
  /\ \E outcome \in FetchOutcomes :
       call' = IF outcome.kind = "response"
                 THEN Responded([call EXCEPT !.fetches = Append(@, outcome)], outcome)
                 ELSE Catch([call EXCEPT !.fetches = Append(@, outcome)],
                            RejectionError(outcome.kind))
  /\ UNCHANGED PageVars

\* The delay before the next attempt elapses (lines 472, 479): the loop
\* counter is incremented and tested (line 439); line 486 throws when the
\* loop is left.
DelayElapses ==
  /\ call.fn = "postJson" /\ call.pc = "sleep"
  /\ call' = IF call.attempt + 1 <= MAX_RETRY_ATTEMPTS
               THEN [call EXCEPT !.attempt = @ + 1, !.pc = "fetch"]
               ELSE [call EXCEPT !.attempt = @ + 1, !.pc = "thrown",
                                 !.thrown = call.lastError]
  /\ UNCHANGED PageVars

\* ------------------------------------------------------------ specification
InitPage ==
  /\ executionMode = "passive"
  /\ assistedRetryCap = 2
  /\ selectedScript = "literal"
  /\ isRunning = FALSE
  /\ errorMessage = NoError
  /\ turns = <<>>
  /\ turnCount = 0
  /\ pauseCount = 0
  /\ constraintCount = 0
  /\ cancelled = FALSE
  /\ runners = [id \in Runs |-> IdleRunner]
  /\ started = 0
  /\ requests = 0
  /\ stopped = FALSE
  /\ stoppedAt = [id \in Runs |-> Undefined]
  /\ cleared = FALSE
  /\ lateEdits = 0

Init == InitPage /\ session = "single" /\ call = NoCall
InitRace == InitPage /\ session = "overlap" /\ call = NoCall
InitLive == InitPage /\ session = "live" /\ call = NoCall

\* The page is left alone and one library call is made, with any of the
\* arguments.
InitLibrary ==
  /\ InitPage
  /\ session = "library"
  /\ \/ \E n \in Counts, d \in Counts :
          call = [NoCall EXCEPT !.fn = "safeRate", !.numerator = n, !.denominator = d]
     \/ \E e \in ExpectedLiterals, o \in RawOutputs, x \in BOOLEAN :
          call = [NoCall EXCEPT !.fn = "classifyMismatchKind", !.expectedLiteral = e,
                                !.rawOutput = o, !.exactMatch = x]
     \/ \E t \in LibraryTurns :
          call = [NoCall EXCEPT !.fn = "mismatchKindForTurn", !.turn = t]
     \/ \E o \in BrutalOutputs, l \in Labels :
          call = [NoCall EXCEPT !.fn = "evaluateBrutalOutput", !.modelOutput = o,
                                !.expectedLabel = l, !.brutalLiteral = BrutalLiteral(l)]
     \/ \E n \in RepetitionCounts :
          call = [NoCall EXCEPT !.fn = "generateBrutalPrompts", !.repetitionCount = n]

\* The page is left alone and the completion route makes one call of
\* postJson.
InitRoute == InitPage /\ session = "route" /\ call = PostJsonCall

Next ==
  \/ startExperiment
  \/ stopExperiment
  \/ resetExperiment
  \/ setExecutionMode
  \/ setAssistedRetryCap
  \/ setSelectedScript
  \/ \E id \in Runs : LoadReturns(id)
  \/ \E id \in Runs : CompletionReturns(id)
  \/ \E id \in Runs : ObserveReturns(id)
  \/ \E id \in Runs : ProposalReturns(id)
  \/ \E id \in Runs : ConstraintReturns(id)
  \/ \E id \in Runs : RetryCompletionReturns(id)
  \/ \E id \in Runs : RetryObserveReturns(id)
  \/ \E id \in Runs : SleepReturns(id)

\* Page sessions of at most MaxRuns invocations of startExperiment, none
\* started while an earlier one is pending.
Spec == Init /\ [][Next]_vars

\* Page sessions of at most RaceRuns invocations that may overlap, followed
\* for RaceRequests outbound calls.
SpecRace == InitRace /\ [][Next]_vars

\* Every call a runner awaits returns in the end, with a result or a
\* failure, and so does the pacing delay.
CallsReturn ==
  \A id \in Runs :
    /\ WF_vars(LoadReturns(id))
    /\ WF_vars(CompletionReturns(id))
    /\ WF_vars(ObserveReturns(id))
    /\ WF_vars(ProposalReturns(id))
    /\ WF_vars(ConstraintReturns(id))
    /\ WF_vars(RetryCompletionReturns(id))
    /\ WF_vars(RetryObserveReturns(id))
    /\ WF_vars(SleepReturns(id))

\* Sessions as those of Spec in which every awaited call returns.
SpecLive == InitLive /\ [][Next]_vars /\ CallsReturn

NextLibrary ==
  \/ safeRateReturns
  \/ classifyMismatchKindReturns
  \/ mismatchKindForTurnReturns
  \/ evaluateBrutalOutputReturns
  \/ generateBrutalPromptsReturns

\* Single calls of the deterministic library with arguments drawn from
\* Counts, ExpectedLiterals, RawOutputs and LibraryTurns.
SpecLibrary == InitLibrary /\ [][NextLibrary]_vars

NextRoute ==
  \/ FetchSettles
  \/ DelayElapses

\* Single calls of postJson; every fetch settles, by the timer of line 441 at
\* the latest, and every delay elapses.
SpecRoute ==
  InitRoute /\ [][NextRoute]_vars /\ WF_vars(FetchSettles) /\ WF_vars(DelayElapses)

\* ------------------------------------------------------------ properties
Trials == {turns[k] : k \in 1..Len(turns)}

\* C1: the retry count of the iteration in progress of every invocation, and
\* the retry count of every trial of the published log, lies between 0 and
\* the retry cap the invocation was started with.
RetryCountWithinCap ==
  /\ \A id \in Runs : runners[id].cur.retryCountUsed \in 0..runners[id].assistedRetryCap
  /\ \A t \in Trials : t.retryCountUsed \in 0..t.assistedRetryCap

\* C1 witness: a logged trial used the whole cap of 2 and is still not exact,
\* while the next prompt is being retried.
RetryCapReached ==
  /\ \E t \in Trials : /\ t.assistedRetryCap = 2
                       /\ t.retryCountUsed = 2
                       /\ t.contractExactMatch = Some(FALSE)
  /\ \E id \in Runs : runners[id].cur.retryCountUsed > 0

\* C2: for every trial of the published log, correctionSucceeded is true
\* exactly when the final exact match is true and a retry was used.
CorrectionSucceededIff ==
  \A t \in Trials :
    t.correctionSucceeded <=> (t.contractExactMatch = Some(TRUE) /\ t.retryCountUsed > 0)

\* C2 witness: the log holds a corrected trial next to a retried trial that
\* was not corrected.
CorrectedAndUncorrectedLogged ==
  /\ \E t \in Trials : t.correctionSucceeded
  /\ \E t \in Trials : ~t.correctionSucceeded /\ t.retryCountUsed > 0

\* C3 (as claimed): at any time at most one outbound call (completion,
\* observe, proposal, constraint submission) is outstanding and at most one
\* runner loop is active.
OneCallOneLoop ==
  /\ Cardinality({id \in Runs : runners[id].pc \in CallPcs}) <= 1
  /\ Cardinality({id \in Runs : runners[id].pc \in LoopPcs}) <= 1

\* C4 (as claimed): every step either resets the published log to empty or
\* leaves the earlier log as a prefix of the later one, and the log always
\* holds the trials with turnIndex 1..k in order.
LogAppendOnly ==
  [][/\ \/ turns' = <<>>
        \/ /\ Len(turns') >= Len(turns)
           /\ SubSeq(turns', 1, Len(turns)) = turns
     /\ \A k \in 1..Len(turns') : turns'[k].turnIndex = k]_vars

\* C5: the step in which a completion request (initial or retry) fails ends
\* the invocation (it is left with no call outstanding and no pacing delay
\* pending) and sets isRunning to false; an ended invocation never acts again.
FailFast ==
  [][\A id \in Runs :
       /\ ( /\ runners[id].pc \in {"llm", "retry_llm"}
            /\ runners'[id] # runners[id]
            /\ errorMessage' # errorMessage
            /\ errorMessage'.kind \in {"LLM failure", "LLM retry failure"} )
          => /\ runners'[id].pc = "done"
             /\ ~isRunning'
       /\ runners[id].pc = "done" => runners'[id].pc = "done"]_vars

\* C5 witness: a retry completion failed on the second prompt; the
\* invocation has ended with the first trial still published.
RetryFailureEndedRun ==
  /\ errorMessage.kind = "LLM retry failure"
  /\ errorMessage.turnIndex = 2
  /\ runners[1].pc = "done"
  /\ ~isRunning
  /\ Len(turns) = 1

AbortKinds ==
  {"LLM failure", "LLM retry failure", "GuardianAI observe/decide failed",
   "GuardianAI observe/decide failed at retry", "Constraint submission failed"}

\* C6 (as claimed): while the error of an aborted run is shown, the trial
\* index it names is the number of trials in the published log plus one.
AbortNamesNextTrial ==
  errorMessage.kind \in AbortKinds => errorMessage.turnIndex = Len(turns) + 1

\* C7 (as claimed, first part): after stopExperiment, and until
\* startExperiment is invoked again, no completion is requested for a
\* further prompt.
NoFurtherPromptAfterStop ==
  [][stopped /\ stopped' =>
       \A id \in Runs : runners'[id].pc = "llm" => runners[id].pc = "llm"]_vars

\* C8 (as claimed): with the cancel flag set, a runner that is in its loop
\* issues no outbound call.
NoCallAfterCancel ==
  [][\A id \in Runs :
       cancelled /\ runners[id].pc \in LoopPcs /\ runners'[id] # runners[id]
         => runners'[id].pc \notin CallPcs]_vars

\* C8 (amended): with the cancel flag set, a runner that is in its loop
\* starts no new trial and no new retry iteration; the only calls it still
\* issues continue the iteration in flight: the observe after a completion,
\* the constraint submission after its proposal, and the retry completion
\* after its constraint submission.
CancelSampledAtBoundaries ==
  [][\A id \in Runs :
       ( /\ cancelled
         /\ runners[id].pc \in LoopPcs
         /\ runners'[id] # runners[id]
         /\ runners'[id].pc \in CallPcs )
       => <<runners[id].pc, runners'[id].pc>> \in
            {<<"llm", "observe">>, <<"proposal", "constraint">>,
             <<"constraint", "retry_llm">>, <<"retry_llm", "retry_observe">>}]_vars

\* C8 witness: a retry completion was requested while the flag was set.
RetryRequestedAfterCancel ==
  \E id \in Runs : /\ runners[id].pc = "retry_llm"
                   /\ runners[id].cur.lateCall
                   /\ cancelled

HalfBuilt(t) ==
  /\ t.assistedEnabled
  /\ t.contractExpectedLiteral # Undefined
  /\ t.contractExactMatch = Some(FALSE)
  /\ t.retryCountUsed < t.assistedRetryCap

\* C9 (as claimed): every logged trial of an assisted run with an expected
\* literal and a non-exact final output used the whole retry cap.
NoHalfBuiltTrial ==
  \A t \in Trials : ~HalfBuilt(t)

\* C9 (amended): such a trial used the whole retry cap unless the cancel
\* flag was set when the trial was emitted.
HalfBuiltOnlyOnCancel ==
  \A t \in Trials : HalfBuilt(t) => t.stopSignaled

\* C9 witness: a trial of an assisted run was emitted after one of its two
\* retries, non-exact, with the flag set.
HalfBuiltTrialLogged ==
  \E t \in Trials : HalfBuilt(t) /\ t.retryCountUsed = 1 /\ t.stopSignaled

\* C10: a logged trial of a passive run, or of a prompt without expected
\* literal, or whose first output equals the expected literal, has no
\* retry, no correction, no constraint, its final values equal to its
\* initial ones, and one completion request.
NonRetryTrialFinalized ==
  \A t \in Trials :
    ( \/ ~t.assistedEnabled
      \/ t.contractExpectedLiteral = Undefined
      \/ t.initialOutput = Get(t.contractExpectedLiteral) )
    => /\ t.retryCountUsed = 0
       /\ ~t.correctionSucceeded
       /\ ~t.constraintApplied
       /\ t.baselineOutput = t.initialOutput
       /\ t.gateState = t.initialGateState
       /\ t.contractExactMatch = t.initialExactMatch
       /\ t.completions = 1

\* C10 witness: the log of an assisted run holds a trial whose first output
\* was exact and a trial of a prompt without expected literal.
AssistedTrialsWithoutRetry ==
  /\ \E t \in Trials : /\ t.assistedEnabled
                       /\ t.initialExactMatch = Some(TRUE)
  /\ \E t \in Trials : /\ t.assistedEnabled
                       /\ t.contractExpectedLiteral = Undefined
                       /\ t.gateState = "PAUSE"

\* The prompts a run can be given, and those whose expected_literal is
\* missing (or not a string) or blank after trimming.
ScriptPrompts ==
  {ScriptFile[i] : i \in 1..Len(ScriptFile)} \cup {BrutalPrompts[i] : i \in 1..Len(BrutalPrompts)}
LacksLiteral(p) ==
  p.expected_literal = Undefined \/ Trim(Get(p.expected_literal)) = ""

ConstraintFailureAborts ==
  [][\A id \in Runs :
       /\ runners'[id].pc = "constraint" => runners'[id].cur.constraintText # ""
       /\ ( runners[id].pc \in {"proposal", "constraint"} /\ runners'[id] # runners[id] )
          => \/ /\ runners[id].pc = "proposal"
                /\ runners'[id].pc = "constraint"
                /\ turns' = turns
             \/ /\ runners[id].pc = "constraint"
                /\ runners'[id].pc = "retry_llm"
                /\ runners'[id].cur.constraintApplied
                /\ constraintCount' = runners[id].localConstraintCount + 1
                /\ turns' = turns
             \/ /\ runners'[id].pc = "done"
                /\ errorMessage' = ErrorAt("Constraint submission failed", runners[id].index + 1, 0)
                /\ ~isRunning'
                /\ turns' = turns
                /\ constraintCount' = runners[id].localConstraintCount]_vars

\* C12 witness: the run was aborted in the constraint step of its second
\* prompt: the first trial is published, the second is not, and no
\* constraint is counted.
ConstraintAbortReached ==
  /\ errorMessage = ErrorAt("Constraint submission failed", 2, 0)
  /\ Len(turns) = 1
  /\ constraintCount = 0
  /\ ~isRunning
  /\ \A id \in Runs : runners[id].pc \in {"idle", "done"}

\* The trials of a structured (brutal) run, and the gate state the claim
\* derives from an output of such a trial.
BrutalTrial(t) == \E i \in 1..Len(BrutalPrompts) : BrutalPrompts[i].prompt = t.prompt
GateOfOutput(t, output) ==
  IF evaluateBrutalOutput(output, Get(t.expectedLabel), Get(t.contractExpectedLiteral)).taxonomy
       = "EXACT_MATCH"
    THEN "CONTINUE" ELSE "PAUSE"

\* C13: a run of the brutal script never has an observe, proposal or
\* constraint call outstanding, its gate states in progress are CONTINUE or
\* PAUSE, and each of its logged trials has the initial and the final gate
\* state given by the taxonomy of the initial and of the final output:
\* CONTINUE for EXACT_MATCH, PAUSE otherwise.
BrutalGateIsLocal ==
  /\ \A id \in Runs :
       runners[id].isBrutalScript
         => /\ runners[id].pc \notin {"observe", "proposal", "constraint", "retry_observe"}
            /\ runners[id].cur.initialGateState \in {"CONTINUE", "PAUSE"}
            /\ runners[id].cur.finalGateState \in {"CONTINUE", "PAUSE"}
  /\ \A t \in Trials :
       BrutalTrial(t)
         => /\ t.taxonomy # Undefined
            /\ t.initialGateState = GateOfOutput(t, t.initialOutput)
            /\ t.gateState = GateOfOutput(t, t.baselineOutput)
            /\ t.gateState = IF t.taxonomy = Some("EXACT_MATCH") THEN "CONTINUE" ELSE "PAUSE"
            /\ ~t.constraintApplied

\* C13 witness: an assisted brutal run logged a trial that paused on its
\* first output and continued on a retry output, and a trial still paused
\* after its retries.
BrutalGateChanged ==
  /\ \E t \in Trials : /\ BrutalTrial(t)
                       /\ t.initialGateState = "PAUSE"
                       /\ t.gateState = "CONTINUE"
  /\ \E t \in Trials : /\ BrutalTrial(t)
                       /\ t.retryCountUsed > 0
                       /\ t.gateState = "PAUSE"

\* C14: in a run of the literal script, a step that requests a retry
\* completion follows the constraint submission exactly when the gate state
\* the iteration started with is PAUSE; the submission follows the proposal,
\* and the proposal is requested only with the gate at PAUSE. Every logged
\* trial with a constraint applied missed on its first output and used a
\* retry.
ConstraintIffPaused ==
  [][/\ \A id \in Runs :
          ~runners'[id].isBrutalScript
            => /\ ( runners'[id].pc = "retry_llm" /\ runners[id].pc # "retry_llm" )
                  => /\ runners[id].pc = "constraint"
                          <=> runners'[id].cur.finalGateState = "PAUSE"
                     /\ runners[id].pc # "constraint"
                          => runners[id].pc \in {"llm", "observe", "retry_observe"}
                     /\ runners'[id].cur.constraintApplied
                          => runners'[id].cur.retryCountUsed >= 1
               /\ ( runners'[id].pc = "constraint" /\ runners[id].pc # "constraint" )
                  => runners[id].pc = "proposal"
               /\ ( runners'[id].pc = "proposal" /\ runners[id].pc # "proposal" )
                  => /\ runners'[id].cur.finalGateState = "PAUSE"
                     /\ runners[id].pc \in {"observe", "retry_observe"}
     /\ \A k \in 1..Len(turns') :
          turns'[k].constraintApplied
            => /\ turns'[k].initialExactMatch = Some(FALSE)
               /\ turns'[k].retryCountUsed >= 1]_vars

\* C14 witness: a literal assisted run logged a trial whose first retry
\* was requested without a constraint, the gate not having paused on the
\* first output, and whose later retry followed a constraint.
RetriedWithAndWithoutConstraint ==
  \E t \in Trials : /\ ~BrutalTrial(t)
                    /\ t.initialGateState # "PAUSE"
                    /\ t.retryCountUsed >= 2
                    /\ t.constraintApplied

\* C15: in every state the published pause counter is the number of logged
\* trials whose final gate state is PAUSE, and the published trial counter
\* is the length of the log.
CountersMatchLog ==
  /\ pauseCount = Cardinality({k \in 1..Len(turns) : turns[k].gateState = "PAUSE"})
  /\ turnCount = Len(turns)

\* The positions of the brutal assisted trials of a log, and the last trial
\* of a log.
StructuredAssisted(log) ==
  {k \in 1..Len(log) : BrutalTrial(log[k]) /\ log[k].assistedEnabled}
LastTrial(log) == log[Len(log)]

\* C16: among the brutal assisted trials of the log, the trials finally
\* paused are as many as the trials initially paused less the trials with
\* correctionSucceeded; and when the first retry completion of such a run
\* returns, the run either fails on the request, or goes on to a second
\* retry with a wrong output, or emits the trial with retryCountUsed = 1,
\* first output wrong, and correctionSucceeded exactly when the retry
\* output is the expected literal.
PausesLessCorrections ==
  [][/\ Cardinality({k \in StructuredAssisted(turns') : turns'[k].gateState = "PAUSE"})
          = Cardinality({k \in StructuredAssisted(turns') : turns'[k].initialGateState = "PAUSE"})
            - Cardinality({k \in StructuredAssisted(turns') : turns'[k].correctionSucceeded})
     /\ \A id \in Runs :
          ( /\ runners[id].isBrutalScript
            /\ runners[id].assistedEnabled
            /\ runners[id].pc = "retry_llm"
            /\ runners[id].cur.retryCountUsed = 1
            /\ runners'[id] # runners[id] )
          => \/ /\ runners'[id].pc = "done"
                /\ errorMessage' = ErrorAt("LLM retry failure", runners[id].index + 1, 0)
                /\ turns' = turns
             \/ /\ runners'[id].pc = "retry_llm"
                /\ runners'[id].cur.retryCountUsed = 2
                /\ runners'[id].cur.finalOutput # Get(runners[id].cur.expectedLiteral)
                /\ turns' = turns
             \/ /\ runners'[id].pc \in {"sleep", "done"}
                /\ Len(turns') = Len(runners[id].localTurns) + 1
                /\ LastTrial(turns').retryCountUsed = 1
                /\ LastTrial(turns').initialOutput # Get(runners[id].cur.expectedLiteral)
                /\ LastTrial(turns').initialExactMatch = Some(FALSE)
                /\ LastTrial(turns').correctionSucceeded
                     <=> LastTrial(turns').baselineOutput = Get(runners[id].cur.expectedLiteral)]_vars

\* C16 witness: a brutal assisted run logged a trial corrected by its first
\* retry and a trial still paused after its retries.
CorrectedByFirstRetry ==
  /\ \E t \in Trials : /\ BrutalTrial(t) /\ t.assistedEnabled
                       /\ t.initialGateState = "PAUSE"
                       /\ t.correctionSucceeded
                       /\ t.retryCountUsed = 1
                       /\ t.baselineOutput = Get(t.contractExpectedLiteral)
  /\ \E t \in Trials : /\ BrutalTrial(t) /\ t.assistedEnabled
                       /\ t.gateState = "PAUSE"
                       /\ t.retryCountUsed >= 1

\* C17: a returned call of safeRate gave null when the denominator is zero
\* or negative, whatever the numerator, and otherwise the quotient of the
\* numerator by the denominator: 0 for a zero numerator, 3/5 for 3 over 5.
SafeRateNullOrQuotient ==
  ( call.fn = "safeRate" /\ call.returned )
    => /\ call.denominator <= 0 => call.rate = Null
       /\ call.denominator > 0
            => /\ call.rate # Null
               /\ Get(call.rate).den > 0
               /\ Get(call.rate).num * call.denominator = call.numerator * Get(call.rate).den
       /\ ( call.numerator = 0 /\ call.denominator > 0 )
            => call.rate = Some([num |-> 0, den |-> 1])
       /\ ( call.numerator = 3 /\ call.denominator = 5 )
            => call.rate = Some([num |-> 3, den |-> 5])

\* C17 witness: safeRate(0, 5) returned 0.
ZeroOverPositiveReturned ==
  /\ call.fn = "safeRate" /\ call.returned
  /\ call.numerator = 0 /\ call.denominator = 5
  /\ call.rate = Some([num |-> 0, den |-> 1])

\* C18: a returned call of classifyMismatchKind gave one of exact,
\* formattingOnly and semanticHardFailure, and gave exact exactly when the
\* exactMatch argument is true; a returned call of mismatchKindForTurn gave
\* null exactly when the trial's contractExactMatch is undefined, and one
\* of the three kinds otherwise.
KindTotalExactIffFlag ==
  /\ ( call.fn = "classifyMismatchKind" /\ call.returned )
       => /\ call.kind \in {Some("exact"), Some("formattingOnly"), Some("semanticHardFailure")}
          /\ call.kind = Some("exact") <=> call.exactMatch
  /\ ( call.fn = "mismatchKindForTurn" /\ call.returned )
       => /\ call.kind = Null <=> call.turn.contractExactMatch = Undefined
          /\ call.kind \in {Null, Some("exact"), Some("formattingOnly"),
                            Some("semanticHardFailure")}

\* C18 witness: classifyMismatchKind returned for equal strings with the
\* flag false, and the kind is not exact.
EqualStringsNotExact ==
  /\ call.fn = "classifyMismatchKind" /\ call.returned
  /\ call.expectedLiteral = Literal42 /\ call.rawOutput = Literal42
  /\ ~call.exactMatch
  /\ call.kind = Some("formattingOnly")

\* C19: a returned call classifyMismatchKind("42", "The answer is 42.",
\* false) gave formattingOnly.
ProseBeforeLiteralIsFormattingOnly ==
  ( /\ call.fn = "classifyMismatchKind" /\ call.returned
    /\ call.expectedLiteral = Literal42
    /\ call.rawOutput = ProseThen42
    /\ ~call.exactMatch )
    => call.kind = Some("formattingOnly")

\* C20: a returned call of classifyMismatchKind with the flag false gave
\* formattingOnly whenever the boundary-normalized forms of the two strings
\* are equal and not empty: so for "42" against " 42 ", "42." and "\"42\"",
\* and for "Yes" against "yes" and "YES!".
NormalizedEqualIsFormattingOnly ==
  ( call.fn = "classifyMismatchKind" /\ call.returned /\ ~call.exactMatch )
    => /\ ( /\ boundaryNormalizedLiteral(call.expectedLiteral)
                 = boundaryNormalizedLiteral(call.rawOutput)
            /\ boundaryNormalizedLiteral(call.expectedLiteral) # <<>> )
            => call.kind = Some("formattingOnly")
       /\ ( /\ call.expectedLiteral = Literal42
            /\ call.rawOutput \in {<<" ", "4", "2", " ">>, <<"4", "2", ".">>,
                                   <<"\"", "4", "2", "\"">>} )
            => call.kind = Some("formattingOnly")
       /\ ( /\ call.expectedLiteral = LiteralYes
            /\ call.rawOutput \in {<<"y", "e", "s">>, <<"Y", "E", "S", "!">>} )
            => call.kind = Some("formattingOnly")

\* C20 witness: classifyMismatchKind("Yes", "YES!", false) returned
\* formattingOnly.
CaseAndPunctuationDrift ==
  /\ call.fn = "classifyMismatchKind" /\ call.returned
  /\ call.expectedLiteral = LiteralYes
  /\ call.rawOutput = <<"Y", "E", "S", "!">>
  /\ ~call.exactMatch
  /\ call.kind = Some("formattingOnly")

\* The prefix-with-boundary rule as the claim words it: the trimmed output
\* starts with the trimmed expected literal, and the next character is
\* absent, white space or punctuation.
StartsWithThenBoundary(e, t) ==
  /\ Len(e) <= Len(t)
  /\ \A i \in 1..Len(e) : t[i] = e[i]
  /\ Len(t) > Len(e) => t[Len(e) + 1] \in WhiteSpace \cup Punctuation
DiffersNormalized(e, o) ==
  /\ boundaryNormalizedLiteral(o) # <<>>
  /\ boundaryNormalizedLiteral(o) # boundaryNormalizedLiteral(e)
KindByPrefixRule(e, o) ==
  IF StartsWithThenBoundary(trimChars(e), trimChars(o))
    THEN Some("formattingOnly") ELSE Some("semanticHardFailure")

\* C21 as stated: a returned call of classifyMismatchKind with the flag
\* false, for an output whose normalized form is not empty and differs from
\* the normalized expected literal, gave formattingOnly exactly when the
\* prefix-with-boundary rule holds, and semanticHardFailure otherwise.
PrefixRuleDecides ==
  ( /\ call.fn = "classifyMismatchKind" /\ call.returned /\ ~call.exactMatch
    /\ DiffersNormalized(call.expectedLiteral, call.rawOutput) )
    => call.kind = KindByPrefixRule(call.expectedLiteral, call.rawOutput)

\* C21 amended: the same, for an expected literal whose normalized form is
\* not empty either; so "42 apples" is formattingOnly for "42", and "421"
\* and "41" are semanticHardFailure.
PrefixRuleDecidesForProperLiteral ==
  ( /\ call.fn = "classifyMismatchKind" /\ call.returned /\ ~call.exactMatch
    /\ DiffersNormalized(call.expectedLiteral, call.rawOutput)
    /\ boundaryNormalizedLiteral(call.expectedLiteral) # <<>> )
    => /\ call.kind = KindByPrefixRule(call.expectedLiteral, call.rawOutput)
       /\ ( /\ call.expectedLiteral = Literal42
            /\ call.rawOutput = <<"4", "2", " ", "a", "p", "p", "l", "e", "s">> )
            => call.kind = Some("formattingOnly")
       /\ ( /\ call.expectedLiteral = Literal42
            /\ call.rawOutput \in {<<"4", "2", "1">>, <<"4", "1">>} )
            => call.kind = Some("semanticHardFailure")

\* C21 witness: classifyMismatchKind("42", "42 apples", false) returned
\* formattingOnly.
TrailingSpilloverReturned ==
  /\ call.fn = "classifyMismatchKind" /\ call.returned /\ ~call.exactMatch
  /\ call.expectedLiteral = Literal42
  /\ call.rawOutput = <<"4", "2", " ", "a", "p", "p", "l", "e", "s">>
  /\ call.kind = Some("formattingOnly")

\* The parsed value of an output text that JSON.parse accepts, and the
\* verdict the precedence of the claim gives: the value conforms when it is
\* the contract object of an allowed label, members in contract order.
ParsedValue(text) == (CHOOSE d \in JSONDocuments : d.text = text).value
Conforms(value) == \E l \in Labels : value = ContractObject(l, "0.75", "1")
TaxonomyByPrecedence(text, label, literal) ==
  IF text = literal THEN "EXACT_MATCH"
  ELSE IF text \in NonJSONTexts THEN "NON_JSON_OUTPUT"
  ELSE IF ~Conforms(ParsedValue(text)) THEN "SCHEMA_VIOLATION"
  ELSE IF ParsedValue(text) # ContractObject(label, "0.75", "1") THEN "SEMANTIC_HARD_FAILURE"
  ELSE "FORMAT_ONLY_DRIFT"

\* C22: a returned call of evaluateBrutalOutput gave EXACT_MATCH for the
\* expected literal itself; else NON_JSON_OUTPUT for a text that does not
\* parse; else SCHEMA_VIOLATION for a value that is not the contract object
\* of an allowed label; else SEMANTIC_HARD_FAILURE for another label than
\* the expected one; else FORMAT_ONLY_DRIFT.  An output with meta before
\* result and a wrong answer is SCHEMA_VIOLATION and not flagged as a
\* semantic hard failure.
VerdictsInPrecedence ==
  ( call.fn = "evaluateBrutalOutput" /\ call.returned )
    => /\ Get(call.evaluation).taxonomy
            = TaxonomyByPrecedence(call.modelOutput, call.expectedLabel, call.brutalLiteral)
       /\ ( \E l \in AnswerStrings \ {call.expectedLabel} :
              call.modelOutput = MetaFirstLiteral(l) )
            => /\ Get(call.evaluation).taxonomy = "SCHEMA_VIOLATION"
               /\ ~Get(call.evaluation).semanticHardFailure

\* C22 witness: evaluateBrutalOutput returned SCHEMA_VIOLATION for the
\* contract object of label B with meta first, label A expected.
SchemaBeforeAnswer ==
  /\ call.fn = "evaluateBrutalOutput" /\ call.returned
  /\ call.expectedLabel = "A"
  /\ call.modelOutput = MetaFirstLiteral("B")
  /\ Get(call.evaluation).taxonomy = "SCHEMA_VIOLATION"

\* The contract object of a label with its members out of contract order or
\* with one member more, as output texts.
MetaFirstTexts == {MetaFirstLiteral(l) : l \in Labels}
ConfidenceFirstTexts ==
  {TopText("{\"confidence\":0.75,\"answer\":" \o Quoted(l) \o "}", MetaText("1")) : l \in Labels}
ExtraKeyTexts ==
  {d.text : d \in {x \in ExtendedDocuments : Get(Prop(Get(Prop(x.value, "result")), "answer")).s \in Labels}}

\* C23: a returned call of evaluateBrutalOutput for the contract values with
\* meta before result, or confidence before answer, or one key more at the
\* top level, in result or in meta, gave SCHEMA_VIOLATION with keyOrderValid
\* and schemaValid false and no semantic hard failure, whether or not the
\* answer is the expected label.
KeyOrderIsContract ==
  ( /\ call.fn = "evaluateBrutalOutput" /\ call.returned
    /\ call.modelOutput \in MetaFirstTexts \cup ConfidenceFirstTexts \cup ExtraKeyTexts )
    => /\ Get(call.evaluation).taxonomy = "SCHEMA_VIOLATION"
       /\ ~Get(call.evaluation).keyOrderValid
       /\ ~Get(call.evaluation).schemaValid
       /\ Get(call.evaluation).jsonParseValid
       /\ ~Get(call.evaluation).semanticHardFailure

\* C23 witness: evaluateBrutalOutput returned for the contract object of
\* the expected label A with confidence before answer.
RightAnswerWrongOrder ==
  /\ call.fn = "evaluateBrutalOutput" /\ call.returned
  /\ call.expectedLabel = "A"
  /\ call.modelOutput = TopText("{\"confidence\":0.75,\"answer\":\"A\"}", MetaText("1"))
  /\ Get(call.evaluation).taxonomy = "SCHEMA_VIOLATION"
  /\ ~Get(call.evaluation).keyOrderValid

\* A trial without a literal contract.
LacksContract(t) == t.contractExpectedLiteral = Undefined

InitialFailures == {k \in 1..Len(turns) : turns[k].initialExactMatch = Some(FALSE)}
Corrected == {k \in InitialFailures : turns[k].correctionSucceeded}

\* C25: in every state the snapshot that an export builds carries as
\* correctionSuccessRate the number of corrected trials over the number of
\* initial failures, and null exactly when the log has no initial failure.
ExportedCorrectionRate ==
  /\ buildSnapshot.correctionSuccessRate = Null <=> InitialFailures = {}
  /\ InitialFailures # {}
       => buildSnapshot.correctionSuccessRate
            = Some(Quotient(Cardinality(Corrected), Cardinality(InitialFailures)))

\* C26: a runner that was started returns in the end with isRunning false;
\* and an invocation over N prompts has requested at most
\* N * (1 + assistedRetryCap) completions and N * assistedRetryCap
\* proposals, with the retry cap it captured.
RequestsBounded ==
  \A id \in Runs :
    runners[id].pc \in LoopPcs
      => /\ runners[id].completionRequests
              <= Len(runPrompts(runners[id])) * (1 + runners[id].assistedRetryCap)
         /\ runners[id].proposalRequests
              <= Len(runPrompts(runners[id])) * runners[id].assistedRetryCap
RunTerminates ==
  /\ []RequestsBounded
  /\ \A id \in Runs :
       (runners[id].pc \notin {"idle", "done"}) ~> (runners[id].pc = "done" /\ ~isRunning)

\* C26 witness: an assisted run over the literal script is at its last
\* prompt and has requested a proposal for each retry the cap allows.
ProposalsAtTheCap ==
  \E id \in Runs :
    /\ runners[id].pc \in LoopPcs
    /\ runners[id].assistedEnabled
    /\ runners[id].index + 1 = Len(runPrompts(runners[id]))
    /\ runners[id].cur.retryCountUsed = runners[id].assistedRetryCap
    /\ runners[id].proposalRequests = runners[id].assistedRetryCap
    /\ runners[id].completionRequests = runners[id].index + 1 + runners[id].assistedRetryCap

\* The retries used by the trials of a log, summed.
RECURSIVE RetriesUsed(_)
RetriesUsed(log) ==
  IF log = <<>> THEN 0 ELSE log[1].retryCountUsed + RetriesUsed(Tail(log))

\* The published constraint counter counts constraint applications of
\* logged trials only: it is at most the retries used by the trials of the
\* log, and zero when no logged trial has a constraint applied.
CounterCountsLoggedOnly ==
  /\ constraintCount <= RetriesUsed(turns)
  /\ (\A k \in 1..Len(turns) : ~turns[k].constraintApplied) => constraintCount = 0

\* C27: the published constraint counter counts constraint applications of
\* logged trials only; stated for the states in which no invocation is in
\* progress, where no step is half done.
ConstraintsBelongToLog ==
  (\A id \in Runs : runners[id].pc \in {"idle", "done"}) => CounterCountsLoggedOnly
\* The spellings of the decisions that the claim maps to PAUSE and to YIELD,
\* and the gate state it gives a decision.
PauseSpellings == {"PAUSE", "Pause", "pause", "DEFER", "Defer", "defer"}
YieldSpellings == {"YIELD", "Yield", "yield"}
GateByDecision(decision) ==
  IF decision \in PauseSpellings THEN "PAUSE"
  ELSE IF decision \in YieldSpellings THEN "YIELD"
  ELSE "CONTINUE"

\* C28: every logged trial of a literal script was observed with its final
\* output, and its initial and final gate states are the decisions the gate
\* answered for the first and for the last output, PAUSE and DEFER in any
\* case mapped to PAUSE, YIELD to YIELD, and anything else to CONTINUE.
GateIsMappedDecision ==
  \A k \in 1..Len(turns) :
    LET t == turns[k]
    IN ~BrutalTrial(t) =>
         /\ t.observedOutput = Some(t.baselineOutput)
         /\ t.initialDecision # Undefined
         /\ t.finalDecision # Undefined
         /\ t.initialGateState = GateByDecision(Get(t.initialDecision))
         /\ t.gateState = GateByDecision(Get(t.finalDecision))

\* C28 happens: a logged literal trial whose first output was answered with
\* Defer and whose different retry output was answered with yield.
MixedCaseDecisionsLogged ==
  \E k \in 1..Len(turns) :
    /\ ~BrutalTrial(turns[k])
    /\ turns[k].retryCountUsed >= 1
    /\ turns[k].baselineOutput # turns[k].initialOutput
    /\ turns[k].initialDecision = Some("Defer")
    /\ turns[k].initialGateState = "PAUSE"
    /\ turns[k].finalDecision = Some("yield")
    /\ turns[k].gateState = "YIELD"

\* The greatest integer not above a number, the count the claim gives for
\* it, the compact contract object that carries a label, and whether a text
\* occurs inside another.
FloorOf(x) == CHOOSE k \in (0 - 2)..10002 : k * x.den <= x.num /\ (k + 1) * x.den > x.num
ClampedCount(x) ==
  IF FloorOf(x) < 4 THEN 4 ELSE IF FloorOf(x) > 10000 THEN 10000 ELSE FloorOf(x)
CompactContract(label) ==
  CHOOSE text \in {d.text : d \in CompactDocuments} :
    ParsedValue(text) = ContractObject(label, "0.75", "1")
Embeds(text, part) ==
  \E i \in 1..(Len(text) - Len(part) + 1) : SubSeq(text, i, i + Len(part) - 1) = part

\* C29: a returned call generateBrutalPrompts(n) gave clamp(floor(n), 4, 10000)
\* prompts, and the prompt at position i has id i, the label at place
\* (i-1) mod 4 of A, B, C, D, the compact contract object of that label as
\* its expected literal, and a prompt text that contains that literal.
PromptsAsCounted ==
  (call.fn = "generateBrutalPrompts" /\ call.returned) =>
    /\ Len(call.prompts) = ClampedCount(call.repetitionCount)
    /\ \A i \in 1..Len(call.prompts) :
         /\ call.prompts[i].id = i
         /\ call.prompts[i].expected_label = Some(<<"A", "B", "C", "D">>[((i - 1) % 4) + 1])
         /\ call.prompts[i].expected_literal
              = Some(CompactContract(<<"A", "B", "C", "D">>[((i - 1) % 4) + 1]))
         /\ Embeds(call.prompts[i].prompt,
                   CompactContract(<<"A", "B", "C", "D">>[((i - 1) % 4) + 1]))

\* C29 happens: a call with a fraction above the lower limit returned
\* prompts that go round the labels more than once.
FractionFloored ==
  /\ call.fn = "generateBrutalPrompts" /\ call.returned
  /\ call.repetitionCount = [num |-> 13, den |-> 2]
  /\ Len(call.prompts) = 6
  /\ call.prompts[6].expected_label = Some("B")

\* Steps of runner id, told by its position before and after the step:
\* it appends the trial in progress to the log, it aborts the run at the
\* trial in progress, it issues the next retry completion.
AppendsTrial(id) ==
  /\ runners'[id].pc \in {"sleep", "done"}
  /\ Len(turns') = Len(runners[id].localTurns) + 1
  /\ SubSeq(turns', 1, Len(turns') - 1) = runners[id].localTurns
  /\ turns'[Len(turns')].turnIndex = runners[id].index + 1
  /\ turns'[Len(turns')].retryCountUsed = runners[id].cur.retryCountUsed
  /\ turns'[Len(turns')].completions = 1 + runners[id].cur.retryCountUsed
AbortsTrial(id) ==
  /\ runners'[id].pc = "done"
  /\ turns' = turns
  /\ errorMessage' # NoError
  /\ errorMessage'.turnIndex = runners[id].index + 1
IssuesRetry(id) ==
  /\ runners'[id].pc = "retry_llm"
  /\ runners'[id].index = runners[id].index
  /\ runners'[id].localTurns = runners[id].localTurns
  /\ runners'[id].cur.retryCountUsed = runners[id].cur.retryCountUsed + 1
  /\ turns' = turns
Awaits(id, pc) ==
  /\ runners'[id].pc = pc
  /\ runners'[id].index = runners[id].index
  /\ runners'[id].localTurns = runners[id].localTurns
  /\ runners'[id].cur.retryCountUsed = runners[id].cur.retryCountUsed
  /\ turns' = turns
StartsTrial(id, index) ==
  /\ runners'[id].pc = "llm"
  /\ runners'[id].index = index
  /\ Len(runners'[id].localTurns) = index
  /\ runners'[id].cur.retryCountUsed = 0
  /\ turns' = turns

\* A new invocation (which clears the published log) requests its first
\* completion with an empty log of its own.
StartsRun(id) ==
  /\ runners'[id].pc = "llm"
  /\ runners'[id].index = 0
  /\ runners'[id].localTurns = <<>>
  /\ runners'[id].cur.retryCountUsed = 0

\* What may follow the return of the call runner id waits for.
CallOrderStep(id) ==
  CASE runners[id].pc = "llm" ->
         IF UsesLocalGate(runners[id])
           THEN IssuesRetry(id) \/ AppendsTrial(id) \/ AbortsTrial(id)
           ELSE Awaits(id, "observe") \/ AbortsTrial(id)
    [] runners[id].pc \in {"observe", "retry_observe"} ->
         \/ Awaits(id, "proposal")
         \/ IssuesRetry(id)
         \/ AppendsTrial(id)
         \/ AbortsTrial(id)
    [] runners[id].pc = "proposal" -> Awaits(id, "constraint") \/ AbortsTrial(id)
    [] runners[id].pc = "constraint" -> IssuesRetry(id) \/ AbortsTrial(id)
    [] runners[id].pc = "retry_llm" ->
         IF UsesLocalGate(runners[id])
           THEN IssuesRetry(id) \/ AppendsTrial(id) \/ AbortsTrial(id)
           ELSE Awaits(id, "retry_observe") \/ AbortsTrial(id)
    [] runners[id].pc = "sleep" ->
         \/ StartsTrial(id, runners[id].index + 1)
         \/ runners'[id].pc = "done" /\ turns' = turns
    [] OTHER -> runners'[id].pc = "llm" => StartsRun(id)

\* C30: the calls of one trial are made in the order completion, observe
\* (literal scripts), then per retry an optional proposal with its constraint
\* submission, a completion and an observe; the trial is appended in the
\* step in which the last of them returns, nothing else appends to the log,
\* and the first completion of the next trial is requested only after that.
CallsInTrialOrder ==
  [][ /\ \A id \in Runs : runners'[id] # runners[id] => CallOrderStep(id)
      /\ (turns' # turns /\ turns' # <<>>) =>
           \E id \in Runs :
             /\ runners[id].pc \in {"llm", "observe", "retry_llm", "retry_observe"}
             /\ AppendsTrial(id) ]_vars

\* C30 happens: the second trial of a literal run was appended after a first
\* retry without a proposal and a second retry with one, and the run is over.
TwoRetriesOneProposal ==
  /\ Len(turns) = 2
  /\ \A id \in Runs : runners[id].pc \in {"idle", "done"}
  /\ ~BrutalTrial(turns[2])
  /\ turns[2].initialGateState = "CONTINUE"
  /\ turns[2].retryCountUsed = 2
  /\ turns[2].completions = 3
  /\ turns[2].constraintApplied

\* C31: every logged trial was produced by 1 + retryCountUsed completion
\* requests, all with the prompt of the trial and the options of the run;
\* its baselineOutput is the content the last of them returned, and its
\* contractExactMatch is the equality of that content with the expected
\* literal (undefined when the prompt has none).
RetriesRepeatTheRequest ==
  \A k \in 1..Len(turns) :
    /\ turns[k].completions = 1 + turns[k].retryCountUsed
    /\ \A q \in turns[k].requestsMade :
         /\ q.prompt = turns[k].prompt
         /\ q.options = (IF BrutalTrial(turns[k])
                           THEN Some([maxTokens |-> "min(llmMaxTokens, BRUTAL_MAX_TOKENS_CAP)",
                                      systemPrompt |-> "BRUTAL_SYSTEM_PROMPT"])
                           ELSE Undefined)
    /\ turns[k].requestsMade # {}
    /\ turns[k].lastReturned = Some(turns[k].baselineOutput)
    /\ turns[k].contractExactMatch
         = (IF turns[k].contractExpectedLiteral = Undefined
              THEN Undefined
              ELSE Some(Get(turns[k].lastReturned) = Get(turns[k].contractExpectedLiteral)))

\* C31 happens: a logged trial with a constraint applied and two retries
\* whose last content differs from the first and equals the expected literal.
SecondRetryMatched ==
  \E k \in 1..Len(turns) :
    /\ turns[k].retryCountUsed = 2
    /\ turns[k].completions = 3
    /\ turns[k].constraintApplied
    /\ turns[k].baselineOutput # turns[k].initialOutput
    /\ turns[k].contractExactMatch = Some(TRUE)

\* A text made only of white space and punctuation (the empty text too).
OnlyBoundaryCharacters(text) ==
  \A i \in 1..Len(text) : text[i] \in WhiteSpace \cup Punctuation

\* C32: a returned call of classifyMismatchKind with the flag false, for an
\* expected literal or an output made only of white space and punctuation,
\* gave semanticHardFailure, also when the output starts with the expected
\* literal at a boundary or both normalize to the same empty text.
EmptyNormalizedIsHardFailure ==
  ( /\ call.fn = "classifyMismatchKind" /\ call.returned /\ ~call.exactMatch
    /\ \/ OnlyBoundaryCharacters(call.expectedLiteral)
       \/ OnlyBoundaryCharacters(call.rawOutput) )
    => call.kind = Some("semanticHardFailure")

\* C32 happens: classifyMismatchKind(".", ". 42", false) returned
\* semanticHardFailure although the output starts with the expected literal
\* followed by a space.
EmptinessBeforePrefixRule ==
  /\ call.fn = "classifyMismatchKind" /\ call.returned /\ ~call.exactMatch
  /\ call.expectedLiteral = <<".">>
  /\ call.rawOutput = <<".", " ", "4", "2">>
  /\ StartsWithThenBoundary(trimChars(call.expectedLiteral), trimChars(call.rawOutput))
  /\ call.kind = Some("semanticHardFailure")

\* C33: a runner enters the pacing delay only in the step that appends a
\* trial, and only with the cancel flag clear at that moment (with the flag
\* set the run ends there); the completion request for a further prompt is
\* made only in the step in which the delay elapses, and only with the flag
\* clear at that moment (with the flag set the run ends there).
DelayBetweenTrials ==
  [][\A id \in Runs :
       runners'[id] # runners[id] =>
         /\ runners'[id].pc = "sleep" => (AppendsTrial(id) /\ ~cancelled)
         /\ (AppendsTrial(id) /\ cancelled) => runners'[id].pc = "done"
         /\ (runners'[id].pc = "llm" /\ runners'[id].index > 0) =>
              /\ runners[id].pc = "sleep"
              /\ ~cancelled
              /\ StartsTrial(id, runners[id].index + 1)
         /\ (runners[id].pc = "sleep" /\ cancelled) => runners'[id].pc = "done"
         /\ runners[id].pc = "sleep" => runners'[id].pc \in {"llm", "done"}]_vars

\* C33 happens: the second prompt of a run is being requested, its first
\* trial logged, with the flag clear.
SecondPromptRequested ==
  \E id \in Runs :
    /\ runners[id].pc = "llm"
    /\ runners[id].index = 1
    /\ Len(turns) = 1
    /\ turns[1].turnIndex = 1
    /\ ~turns[1].stopSignaled
    /\ ~cancelled

\* C34: an invocation during which stopExperiment was called requests no
\* completion for a further prompt and stays at the prompt it was at (it may
\* finish the trial in flight, nothing more), whatever is invoked afterwards.
StoppedRunNeverResumes ==
  [][\A id \in Runs :
       stoppedAt[id] # Undefined =>
         /\ runners'[id].pc = "llm" => runners[id].pc = "llm"
         /\ runners'[id].pc \in LoopPcs => runners'[id].index = Get(stoppedAt[id])
         /\ AppendsTrial(id) => runners[id].index = Get(stoppedAt[id])]_vars

\* C35: from resetExperiment until the next startExperiment the published
\* log is empty and the turn, pause and constraint counters are zero.
ResetStaysClear ==
  cleared => /\ turns = <<>>
             /\ turnCount = 0
             /\ pauseCount = 0
             /\ constraintCount = 0

\* C36: in every logged trial of a brutal run the taxonomy is EXACT_MATCH
\* exactly when contractExactMatch is true, exactly when the gate state is
\* CONTINUE; and the initial gate state is CONTINUE exactly when
\* initialExactMatch is true.
ComplianceViewsAgree ==
  \A t \in Trials :
    BrutalTrial(t) =>
      /\ (t.taxonomy = Some("EXACT_MATCH")) <=> (t.contractExactMatch = Some(TRUE))
      /\ (t.contractExactMatch = Some(TRUE)) <=> (t.gateState = "CONTINUE")
      /\ (t.initialGateState = "CONTINUE") <=> (t.initialExactMatch = Some(TRUE))

\* C36 happens: a brutal trial failed on its first output and on its first
\* retry and matched on its second retry, next to one that never matched.
MatchedOnSecondRetry ==
  /\ \E t \in Trials : /\ BrutalTrial(t)
                       /\ t.initialExactMatch = Some(FALSE)
                       /\ t.retryCountUsed = 2
                       /\ t.taxonomy = Some("EXACT_MATCH")
                       /\ t.gateState = "CONTINUE"
  /\ \E t \in Trials : /\ BrutalTrial(t)
                       /\ t.contractExactMatch = Some(FALSE)
                       /\ t.taxonomy = Some("SEMANTIC_HARD_FAILURE")
                       /\ t.gateState = "PAUSE"

\* C37: the diagnostics of a returned call of evaluateBrutalOutput agree
\* with its verdict: rawMatch iff EXACT_MATCH, jsonParseValid false iff
\* NON_JSON_OUTPUT, schemaValid false iff NON_JSON_OUTPUT or
\* SCHEMA_VIOLATION, semanticHardFailure iff SEMANTIC_HARD_FAILURE, and
\* schemaValid implies keyOrderValid.
DiagnosticsMatchVerdict ==
  (call.fn = "evaluateBrutalOutput" /\ call.returned) =>
    /\ Get(call.evaluation).rawMatch <=> Get(call.evaluation).taxonomy = "EXACT_MATCH"
    /\ ~Get(call.evaluation).jsonParseValid
         <=> Get(call.evaluation).taxonomy = "NON_JSON_OUTPUT"
    /\ ~Get(call.evaluation).schemaValid
         <=> Get(call.evaluation).taxonomy \in {"NON_JSON_OUTPUT", "SCHEMA_VIOLATION"}
    /\ Get(call.evaluation).semanticHardFailure
         <=> Get(call.evaluation).taxonomy = "SEMANTIC_HARD_FAILURE"
    /\ Get(call.evaluation).schemaValid => Get(call.evaluation).keyOrderValid

\* C37 happens: a call returned SCHEMA_VIOLATION for an object with the keys
\* in order and an answer that is not the expected label, without flagging a
\* semantic failure.
SchemaViolationKeepsFlagsApart ==
  /\ call.fn = "evaluateBrutalOutput" /\ call.returned
  /\ Get(call.evaluation).taxonomy = "SCHEMA_VIOLATION"
  /\ Get(call.evaluation).jsonParseValid
  /\ Get(call.evaluation).keyOrderValid
  /\ ~Get(call.evaluation).schemaValid
  /\ ~Get(call.evaluation).semanticHardFailure
  /\ call.modelOutput = BrutalLiteral("E")


\* The corrected trials and the trials logged as a final mismatch.
CorrectedByRetry == {k \in 1..Len(turns) : turns[k].correctionSucceeded}
StillFailing == {k \in 1..Len(turns) : turns[k].contractExactMatch = Some(FALSE)}

\* C38: in every trial log the number of trials whose initial output missed
\* the expected literal equals the number of corrected trials plus the
\* number of trials whose final output still misses it, and no trial that
\* matched initially is logged as a final mismatch.
FailuresSplitIntoCorrectedAndResidual ==
  /\ Cardinality(InitialFailures) = Cardinality(CorrectedByRetry) + Cardinality(StillFailing)
  /\ \A t \in Trials : t.initialExactMatch = Some(TRUE) => t.contractExactMatch # Some(FALSE)

\* C38 witness: two initial failures are logged, one corrected by a retry and
\* one still failing after its retries.
OneCorrectedOneResidual ==
  /\ Cardinality(InitialFailures) = 2
  /\ Cardinality(CorrectedByRetry) = 1
  /\ Cardinality(StillFailing) = 1
  /\ \E k \in StillFailing : turns[k].retryCountUsed > 0


\* The trials of literal scripts, and the texts String.prototype.trim leaves
\* empty.
LiteralTrials == {t \in Trials : t.expectedLabel = Undefined}
Blank(text) == Trim(text) = ""

\* C39: every logged trial of a literal script has a non-blank initialOutput
\* and a non-blank baselineOutput, and a completion, initial or retry, that
\* returned a blank text ends the run without a trial: the observe request
\* that carries it is answered with an error and the runner goes to done,
\* leaving the log as it was.
BlankOutputsAbort ==
  [][\A id \in Runs :
       /\ \A t \in {u \in Trials' : u.expectedLabel = Undefined} :
            ~Blank(t.initialOutput) /\ ~Blank(t.baselineOutput)
       /\ ( /\ runners[id].pc \in {"observe", "retry_observe"}
            /\ Blank(runners[id].cur.finalOutput)
            /\ runners'[id] # runners[id] )
          => /\ runners'[id].pc = "done"
             /\ turns' = turns
             /\ turnCount' = turnCount]_vars

\* C39 witness: a retry returned a whitespace-only text after a first output
\* that was not blank and that the gate let pass; the text is with the observe
\* route and nothing is logged yet.
BlankRetryWithObserveRoute ==
  \E id \in Runs :
    /\ runners[id].pc = "retry_observe"
    /\ runners[id].cur.retryCountUsed = 1
    /\ runners[id].cur.initialOutput = "41"
    /\ runners[id].cur.finalOutput = " "
    /\ runners[id].cur.observedOutput = Some(" ")
    /\ turns = <<>>


\* The call of postJson has ended, and the fetch outcomes after which the
\* claim lets it try again.
PostJsonSettled == call.pc \in {"returned", "thrown"}
MayBeRetried(outcome) ==
  \/ outcome.kind \in {"AbortError", "TypeError"}
  \/ outcome.kind = "response" /\ outcome.status \in {408, 409, 425, 429, 500, 502, 503, 504}
PostJsonWithinLimits ==
  LET n == Len(call.fetches) IN
    /\ n <= 4
    /\ \A k \in 1..(n - 1) : MayBeRetried(call.fetches[k])
    /\ call.pc = "returned" =>
         /\ call.fetches[n].kind = "response" /\ call.fetches[n].status \in 200..299
         /\ call.result = Some(PayloadOf(call.fetches[n].text))
    /\ call.pc = "thrown" =>
         /\ ~(call.fetches[n].kind = "response" /\ call.fetches[n].status \in 200..299)
         /\ Get(call.thrown).status = call.fetches[n].status
         /\ call.result = Undefined
    /\ \A k \in 1..n :
         ( /\ call.fetches[k].kind = "response"
           /\ call.fetches[k].status \notin 200..299
           /\ ~MayBeRetried(call.fetches[k]) )
         => k = n /\ call.pc = "thrown" /\ call.attempt = k

\* C40: a call of postJson makes at most 4 fetches and ends, returning or
\* throwing: it returns the payload of the first ok response, an attempt is
\* followed by another only after a timeout, a network error or a status in
\* {408, 409, 425, 429, 500, 502, 503, 504}, and any other failing status is
\* thrown by the attempt that received it, so a call answered with one at
\* once makes exactly one fetch.
PostJsonEndsWithinFourFetches ==
  []PostJsonWithinLimits /\ <>PostJsonSettled

\* C40 witness: the fourth fetch was answered 200 after a 503, a timeout and
\* a network error, and its payload was returned.
ReturnedOnFourthFetch ==
  /\ call.fn = "postJson" /\ call.pc = "returned"
  /\ Len(call.fetches) = 4
  /\ call.fetches[1].status = 503
  /\ call.fetches[2].kind = "AbortError"
  /\ call.fetches[3].kind = "TypeError"
  /\ call.fetches[4].status = 200
  /\ call.result = Some(PayloadOf("done"))

====
